---- MODULE Spec2Model ----
(***************************************************************************)
(* A model of tuikit: the terminal controller (Term: pause / restart, the  *)
(* key listener and the resize listener, the event channel, raw mode), the *)
(* Screen differ (put_cell, print_with_attr, present), BoundedCanvas, the  *)
(* widgets (HSplit, VSplit, Win, Stack: sizing, drawing, event routing)    *)
(* and the KeyBoard's wheel merging and click synthesis.                   *)
(***************************************************************************)
EXTENDS Integers, Sequences, FiniteSets, TLC

\* ------------------------------------------------------------------ bounds
MaxInputs == 4
MaxScreenOps == 2
MaxPos == 1
MaxPresses == 3

VARIABLES
    \* ---- Term (src/src/term.rs)
    mainPc,        \* the thread that owns the lifecycle: new / idle / r_wait / p_wait / dropped
    exiting,       \* pause_internal's argument of the pause in progress
    status,        \* Stopped / Running: the controller state the last finished call left
    lastOp,        \* the last lifecycle call that returned: none / new / restart / pause / drop
    lastErr,       \* whether that call returned an error
    lockOwner,     \* term_lock: none / main / app
    counter,       \* components_to_stop
    kbHandler,     \* keyboard_handler is Some
    subscribed,    \* NOTIFIER holds the sender of resize_signal_id
    sigRx,         \* ticks waiting in the resize listener's receiver
    sizePc,        \* the resize listener's position
    keyPc,         \* the key listener's position
    inWheel,       \* the key listener is inside merge_wheel's loop
    savedKey,      \* KeyBoard.next_key
    byteBuf,       \* KeyBoard.byte_buf, as key tokens
    sigPipe,       \* bytes in the keyboard's self-pipe
    ttyIn,         \* bytes typed and not yet read from the TTY, as key tokens
    lastTyped,     \* the last token typed
    chan,          \* the event channel
    output,        \* TermLock.output is Some
    mouseEnabled,  \* TermLock.mouse_enabled
    clearOnExit,   \* TermLock.clear_on_exit
    screenWritten, \* TermLock.screen has been written to by a canvas call
    termios,       \* the TTY's termios settings
    rawPrev,       \* RawTerminal.prev_ios of the Output's writer
    appPc,         \* the application thread: idle / body / filter
    appOp,         \* the call the application thread is in
    appResult,     \* what its last finished call returned: Ok, an error, or the event
    appAt,         \* the lifecycle position when that call began (backlog: a poll that
                   \* returned an event sent before the last pause began)
    backlog,       \* events in the channel that were sent before the last pause began
    awaitFirst,    \* a pause then a restart returned and no event has been polled since
    restarts,      \* restarts that went through so far
    inputs,        \* what the outside has done so far: keys typed, SIGWINCHs, restarts
                   \* and application calls
    \* ---- Screen (src/src/screen.rs)
    scr,           \* the Screen: width, height, cells, painted_cells, cursor, clear_on_start
    scrCmds,       \* the command list the last present() returned
    scrLast,       \* the last call on the Screen, its arguments and its return value
    scrRun,        \* how many present() calls have run since the last other call
    scrOps,        \* how many other calls have run
    \* ---- widgets (src/src/widget)
    widget,        \* the widget the application built
    area,          \* width and height of the canvas the widget is drawn on
    lay,           \* the last call on the widget, its arguments and what it returned
    \* ---- KeyBoard (src/src/input.rs): wheel merging and click synthesis
    typed,         \* the raw keys the terminal has sent so far, each with its time in ms
    clock,         \* the time now, in ms
    kb,            \* the KeyBoard: raw_mouse, next_key, last_click, last_click_time, and
                   \* how many of the raw keys it has read
    returned,      \* the keys next_key_timeout has returned so far
    \* ---- TermLock (src/src/term.rs): the region of the terminal it draws on
    tl,            \* the TermLock: heights asked for, flags, cursor_row, screen_height,
                   \* the height of its Screen, and whether it holds an Output
    written,       \* what the last call on the TermLock wrote to its Output
    lockLast,      \* the last call on the TermLock and its arguments
    entered,       \* the last restart wrote the enter-alternate-screen sequence
    lockOps,       \* how many calls on the TermLock have run
    \* ---- Output (src/src/output.rs)
    buffer,        \* Output.buffer: the characters written and not yet flushed
    \* ---- KeyBoard (src/src/input.rs): the decoding of bytes
    keyboard,      \* byte_buf, and file: the bytes that can be read from the terminal
    later,         \* the bytes the terminal sends later
    overflow_checks, \* the build panics on arithmetic overflow (debug) or wraps (release)
    listener,      \* the thread that calls next_key: running / panicked
    decoded        \* what next_key has returned so far

termVars == <<mainPc, exiting, status, lastOp, lastErr, lockOwner, counter, kbHandler,
              subscribed, sigRx, sizePc, keyPc, inWheel, savedKey, byteBuf, sigPipe,
              ttyIn, lastTyped, chan, output, mouseEnabled, clearOnExit, screenWritten,
              termios, rawPrev, appPc, appOp, appResult, appAt, backlog, awaitFirst,
              restarts, inputs>>

screenVars == <<scr, scrCmds, scrLast, scrRun, scrOps>>

\* The variables of the other components (none of them is touched by Term).
layoutVars == <<widget, area, lay>>
clickVars == <<typed, clock, kb, returned>>
regionVars == <<tl, written, lockLast, entered, lockOps, buffer>>
decodeVars == <<keyboard, later, overflow_checks, listener, decoded>>
otherVars == <<screenVars, layoutVars, clickVars, regionVars, decodeVars>>

vars == <<termVars, otherVars>>

\* ------------------------------------------------------------- the keyboard
Tokens == {"c", "esc", "wheel"}

\* next_raw_key_timeout on a non-empty byte_buf: the key decoded, what is left,
\* and whether the decoder now waits for the byte after a lone ESC.
RawDecode(buf) ==
    IF Head(buf) = "c" THEN [res |-> "Key", buf |-> Tail(buf), wait |-> FALSE]
    ELSE IF Head(buf) = "wheel" THEN [res |-> "Wheel", buf |-> Tail(buf), wait |-> FALSE]
    ELSE IF Tail(buf) # <<>>
         THEN [res |-> "Key", buf |-> Tail(Tail(buf)), wait |-> FALSE]
         ELSE [res |-> "none", buf |-> <<>>, wait |-> TRUE]

\* What one result of the raw decoder leads to: inside merge_wheel's loop an equal
\* wheel press counts and the loop goes on, anything else ends the loop (a timeout
\* is None, any other result is saved in next_key) and the merged wheel key is
\* returned; outside, the key listener's match on next_key()'s result applies.
KeyOutcome(res, buf, wheel) ==
    IF res = "Wheel"
    THEN [pc |-> "wloop", wheel |-> TRUE, saved |-> "none", send |-> FALSE, buf |-> buf]
    ELSE IF wheel
    THEN [pc |-> "top", wheel |-> FALSE,
          saved |-> IF res = "Timeout" THEN "none" ELSE res, send |-> TRUE, buf |-> buf]
    ELSE IF res = "Key"
    THEN [pc |-> "top", wheel |-> FALSE, saved |-> "none", send |-> TRUE, buf |-> buf]
    ELSE IF res = "ErrInterrupted"
    THEN [pc |-> "exiting", wheel |-> FALSE, saved |-> "none", send |-> FALSE, buf |-> buf]
    ELSE [pc |-> "top", wheel |-> FALSE, saved |-> "none", send |-> FALSE, buf |-> buf]

\* next_raw_key_timeout once bytes are in byte_buf.
DecodeOutcome(buf, wheel) ==
    LET d == RawDecode(buf)
    IN  IF d.wait
        THEN [pc |-> "drainE", wheel |-> wheel, saved |-> "none", send |-> FALSE, buf |-> <<>>]
        ELSE KeyOutcome(d.res, d.buf, wheel)

KeyApply(o) ==
    /\ keyPc' = o.pc
    /\ inWheel' = o.wheel
    /\ savedKey' = o.saved
    /\ byteBuf' = o.buf
    /\ chan' = IF o.send THEN Append(chan, "Key") ELSE chan

\* wait_until_ready: the data fd is looked at first, the self-pipe second; a wait
\* with no timeout (the listener's own next_key) never times out.
SelectResult(tty, pipe) ==
    IF tty # <<>> THEN "ready" ELSE IF pipe > 0 THEN "interrupted" ELSE "timeout"

SiteOf(pc) ==
    CASE pc \in {"drainA", "selA"} -> "A"
      [] pc \in {"drainE", "selE"} -> "E"
      [] pc \in {"drainP", "selP"} -> "P"
      [] pc \in {"drainW", "selW"} -> "W"

\* ---------------------------------------------------------- key listener
KeyStart ==
    /\ keyPc = "spawned"
    /\ counter' = counter + 1
    /\ keyPc' = "top"
    /\ UNCHANGED <<mainPc, exiting, status, lastOp, lastErr, lockOwner, kbHandler,
                   subscribed, sigRx, sizePc, inWheel, savedKey, byteBuf, sigPipe, ttyIn,
                   lastTyped, chan, output, mouseEnabled, clearOnExit, screenWritten,
                   termios, rawPrev, appPc, appOp, appResult, appAt, backlog, awaitFirst,
                   restarts, inputs, otherVars>>

KeyUnchanged ==
    UNCHANGED <<mainPc, exiting, status, lastOp, lastErr, lockOwner, counter, kbHandler,
                subscribed, sigRx, sizePc, output, mouseEnabled, clearOnExit, screenWritten,
                termios, rawPrev, appPc, appOp, appResult, appAt, backlog, awaitFirst,
                restarts, inputs, lastTyped, otherVars>>

\* The top of the listener's loop: next_key() takes the saved key, or decodes from
\* the bytes it holds, or goes to fetch_bytes.
KeyTop ==
    /\ keyPc = "top"
    /\ IF savedKey # "none"
       THEN KeyApply(KeyOutcome(savedKey, byteBuf, FALSE))
       ELSE IF byteBuf # <<>>
       THEN KeyApply(DecodeOutcome(byteBuf, FALSE))
       ELSE /\ keyPc' = "drainA"
            /\ UNCHANGED <<inWheel, savedKey, byteBuf, chan>>
    /\ UNCHANGED <<sigPipe, ttyIn>>
    /\ KeyUnchanged

\* merge_wheel's loop: try_next_raw_key.
KeyWheelLoop ==
    /\ keyPc = "wloop"
    /\ IF byteBuf # <<>>
       THEN KeyApply(DecodeOutcome(byteBuf, TRUE))
       ELSE /\ keyPc' = "drainW"
            /\ UNCHANGED <<inWheel, savedKey, byteBuf, chan>>
    /\ UNCHANGED <<sigPipe, ttyIn>>
    /\ KeyUnchanged

\* fetch_bytes, first half: "clear interrupt signal".
KeyDrain ==
    /\ keyPc \in {"drainA", "drainE", "drainP", "drainW"}
    /\ sigPipe' = 0
    /\ keyPc' = CASE keyPc = "drainA" -> "selA" [] keyPc = "drainE" -> "selE"
                  [] keyPc = "drainP" -> "selP" [] keyPc = "drainW" -> "selW"
    /\ UNCHANGED <<inWheel, savedKey, byteBuf, chan, ttyIn>>
    /\ KeyUnchanged

\* fetch_bytes, second half: wait_until_ready and read_unread_bytes, and what the
\* caller of that wait does with the outcome.
KeySelect ==
    /\ keyPc \in {"selA", "selE", "selP", "selW"}
    /\ LET r == SelectResult(ttyIn, sigPipe)
           site == SiteOf(keyPc)
       IN  /\ ~(site = "A" /\ r = "timeout")
           /\ IF r = "ready"
              THEN /\ ttyIn' = <<>>
                   /\ CASE site \in {"A", "W"} -> KeyApply(DecodeOutcome(ttyIn, inWheel))
                        [] site = "E" -> KeyApply(KeyOutcome("Key", Tail(ttyIn), inWheel))
                        [] site = "P" -> KeyApply(KeyOutcome("ErrOther", Tail(ttyIn),
                                                             inWheel))
              ELSE /\ ttyIn' = ttyIn
                   /\ CASE site = "A" -> KeyApply(KeyOutcome("ErrInterrupted", byteBuf,
                                                            inWheel))
                        [] site = "W" ->
                             KeyApply(KeyOutcome(IF r = "interrupted" THEN "ErrInterrupted"
                                                 ELSE "Timeout", byteBuf, inWheel))
                        [] site = "E" -> /\ keyPc' = "drainP"
                                         /\ UNCHANGED <<inWheel, savedKey, byteBuf, chan>>
                        [] site = "P" -> KeyApply(KeyOutcome("Key", byteBuf, inWheel))
    /\ UNCHANGED sigPipe
    /\ KeyUnchanged

KeyExit ==
    /\ keyPc = "exiting"
    /\ counter' = counter - 1
    /\ keyPc' = "done"
    /\ UNCHANGED <<mainPc, exiting, status, lastOp, lastErr, lockOwner, kbHandler,
                   subscribed, sigRx, sizePc, inWheel, savedKey, byteBuf, sigPipe, ttyIn,
                   lastTyped, chan, output, mouseEnabled, clearOnExit, screenWritten,
                   termios, rawPrev, appPc, appOp, appResult, appAt, backlog, awaitFirst,
                   restarts, inputs, otherVars>>

\* ------------------------------------------------------- resize listener
\* notify_on_sigwinch and the store of its id.
SizeRegister ==
    /\ sizePc = "spawned"
    /\ subscribed' = TRUE
    /\ sigRx' = 0
    /\ sizePc' = "registered"
    /\ UNCHANGED <<mainPc, exiting, status, lastOp, lastErr, lockOwner, counter, kbHandler,
                   keyPc, inWheel, savedKey, byteBuf, sigPipe, ttyIn, lastTyped, chan,
                   output, mouseEnabled, clearOnExit, screenWritten, termios,
                   rawPrev, appPc, appOp, appResult, appAt, backlog, awaitFirst,
                   restarts, inputs, otherVars>>

SizeStart ==
    /\ sizePc = "registered"
    /\ counter' = counter + 1
    /\ sizePc' = "recv"
    /\ UNCHANGED <<mainPc, exiting, status, lastOp, lastErr, lockOwner, kbHandler,
                   subscribed, sigRx, keyPc, inWheel, savedKey, byteBuf, sigPipe, ttyIn,
                   lastTyped, chan, output, mouseEnabled, clearOnExit, screenWritten,
                   termios, rawPrev, appPc, appOp, appResult, appAt, backlog, awaitFirst,
                   restarts, inputs, otherVars>>

\* sigwinch_rx.recv(): a tick gives Event::Resize{0,0}; a closed channel ends the
\* loop; otherwise the thread blocks.
SizeRecv ==
    /\ sizePc = "recv"
    /\ \/ /\ sigRx > 0
          /\ sigRx' = sigRx - 1
          /\ chan' = Append(chan, "Resize")
          /\ sizePc' = sizePc
       \/ /\ sigRx = 0
          /\ ~subscribed
          /\ sizePc' = "exiting"
          /\ UNCHANGED <<sigRx, chan>>
    /\ UNCHANGED <<mainPc, exiting, status, lastOp, lastErr, lockOwner, counter, kbHandler,
                   subscribed, keyPc, inWheel, savedKey, byteBuf, sigPipe, ttyIn,
                   lastTyped, output, mouseEnabled, clearOnExit, screenWritten,
                   termios, rawPrev, appPc, appOp, appResult, appAt, backlog,
                   awaitFirst, restarts, inputs, otherVars>>

SizeExit ==
    /\ sizePc = "exiting"
    /\ counter' = counter - 1
    /\ sizePc' = "done"
    /\ UNCHANGED <<mainPc, exiting, status, lastOp, lastErr, lockOwner, kbHandler,
                   subscribed, sigRx, keyPc, inWheel, savedKey, byteBuf, sigPipe, ttyIn,
                   lastTyped, chan, output, mouseEnabled, clearOnExit, screenWritten,
                   termios, rawPrev, appPc, appOp, appResult, appAt, backlog, awaitFirst,
                   restarts, inputs, otherVars>>

\* ------------------------------------------------------------ environment
\* A key is typed on the TTY (after a lone ESC only a plain character follows).
Type(t) ==
    /\ mainPc \notin {"new", "dropped"}
    /\ inputs < MaxInputs
    /\ lastTyped = "esc" => t = "c"
    /\ ttyIn' = Append(ttyIn, t)
    /\ lastTyped' = t
    /\ inputs' = inputs + 1
    /\ UNCHANGED <<mainPc, exiting, status, lastOp, lastErr, lockOwner, counter, kbHandler,
                   subscribed, sigRx, sizePc, keyPc, inWheel, savedKey, byteBuf, sigPipe,
                   chan, output, mouseEnabled, clearOnExit, screenWritten, termios,
                   rawPrev, appPc, appOp, appResult, appAt, backlog, awaitFirst,
                   restarts, otherVars>>

\* SIGWINCH: listen_sigwinch's second thread sends a tick to every notifier (with no
\* notifier registered the signal reaches no one).
Sigwinch ==
    /\ mainPc \notin {"new", "dropped"}
    /\ inputs < MaxInputs
    /\ subscribed
    /\ inputs' = inputs + 1
    /\ sigRx' = sigRx + 1
    /\ UNCHANGED <<mainPc, exiting, status, lastOp, lastErr, lockOwner, counter, kbHandler,
                   subscribed, sizePc, keyPc, inWheel, savedKey, byteBuf, sigPipe, ttyIn,
                   lastTyped, chan, output, mouseEnabled, clearOnExit, screenWritten,
                   termios, rawPrev, appPc, appOp, appResult, appAt, backlog, awaitFirst,
                   restarts, otherVars>>

\* ------------------------------------------------------------- raw mode
\* The flag changes of into_raw_mode: the result is raw whatever it started from.
MakeRaw(t) == "raw"

\* into_raw_mode: the settings now in effect and the ones RawTerminal keeps in
\* prev_ios for its drop.
IntoRawMode(t) == [now |-> MakeRaw(t), prev |-> MakeRaw(t)]

\* Drop for RawTerminal: tcsetattr(prev_ios).
DropRawTerminal(prev) == prev

\* --------------------------------------------------- restart's own decoder
\* get_cursor_pos: keyboard.next_key_timeout(WAIT_TIMEOUT) on the new KeyBoard reads
\* what was typed meanwhile and decodes one key from it, which is thrown away; the
\* 10 ms waits inside that one call find nothing new. What stays in the KeyBoard:
RECURSIVE QuietMerge(_)
QuietMerge(buf) ==
    IF buf = <<>> THEN [buf |-> <<>>, saved |-> "none"]
    ELSE LET d == RawDecode(buf)
         IN  IF d.wait THEN [buf |-> <<>>, saved |-> "Key"]
             ELSE IF d.res = "Wheel" THEN QuietMerge(d.buf)
             ELSE [buf |-> d.buf, saved |-> d.res]

QuietKey(buf) ==
    IF buf = <<>> THEN [buf |-> <<>>, saved |-> "none"]
    ELSE LET d == RawDecode(buf)
         IN  IF d.wait THEN [buf |-> <<>>, saved |-> "none"]
             ELSE IF d.res = "Wheel" THEN QuietMerge(d.buf)
             ELSE [buf |-> d.buf, saved |-> "none"]

\* ------------------------------------------------------------ main thread
\* A check that lets a call through whatever the counter says.
EnsureNotStoppedAny(n) == n >= 0

\* ensure_not_stopped.
EnsureNotStopped(n) == n = 2

\* restart's loop condition "wait for components to start" has ended.
RestartWaitOver(n) == ~(n < 2)

\* A wait that ends as soon as one of the two listeners has stopped.
PauseWaitOverOne(n) == n < 2

\* pause_internal's loop condition "wait for the components to stop" has ended.
PauseWaitOver(n) == ~(n > 0)

\* Term::restart up to the spawning of the two listeners; `fail` is the step of it
\* that fails (get_tty / into_raw_mode: "tty", Output::new: "terminfo"), `ctor`
\* whether the caller is the constructor, which drops the Term when restart fails.
RestartBody(fail, ctor) ==
    /\ lockOwner = "none"
    /\ inputs < MaxInputs
    /\ inputs' = inputs + 1
    /\ IF counter = 2
       THEN /\ mainPc' = "idle"
            /\ lastOp' = "restart"
            /\ lastErr' = FALSE
            /\ UNCHANGED <<lockOwner, kbHandler, keyPc, sizePc, inWheel, savedKey, byteBuf,
                           sigPipe, ttyIn, output, termios, rawPrev, restarts, status>>
       ELSE IF fail = "tty"
       THEN /\ mainPc' = IF ctor THEN "dropped" ELSE "idle"
            /\ lastOp' = "restart"
            /\ lastErr' = TRUE
            /\ UNCHANGED <<lockOwner, kbHandler, keyPc, sizePc, inWheel, savedKey, byteBuf,
                           sigPipe, ttyIn, output, termios, rawPrev, restarts, status>>
       ELSE IF fail = "terminfo"
       THEN /\ mainPc' = IF ctor THEN "dropped" ELSE "idle"
            /\ lastOp' = "restart"
            /\ lastErr' = TRUE
            /\ termios' = DropRawTerminal(IntoRawMode(termios).prev)
            /\ UNCHANGED <<lockOwner, kbHandler, keyPc, sizePc, inWheel, savedKey, byteBuf,
                           sigPipe, ttyIn, output, rawPrev, restarts, status>>
       ELSE /\ lockOwner' = "main"
            /\ termios' = IntoRawMode(termios).now
            /\ rawPrev' = IntoRawMode(termios).prev
            /\ kbHandler' = TRUE
            /\ sigPipe' = 0
            /\ byteBuf' = QuietKey(ttyIn).buf
            /\ savedKey' = QuietKey(ttyIn).saved
            /\ inWheel' = FALSE
            /\ ttyIn' = <<>>
            /\ output' = TRUE
            /\ keyPc' = "spawned"
            /\ sizePc' = "spawned"
            /\ restarts' = restarts + 1
            /\ mainPc' = "r_wait"
            /\ UNCHANGED <<lastOp, lastErr, status>>
    /\ UNCHANGED <<exiting, counter, subscribed, sigRx, lastTyped, chan, mouseEnabled,
                   clearOnExit, screenWritten, appPc, appOp, appResult, appAt,
                   backlog, awaitFirst, otherVars>>

\* Term::with_options: with hold the Term is returned stopped, otherwise restarted.
New(hold, fail) ==
    /\ mainPc = "new"
    /\ IF hold
       THEN /\ mainPc' = "idle"
            /\ lastOp' = "new"
            /\ UNCHANGED <<lastErr, lockOwner, kbHandler, keyPc, sizePc, inWheel, savedKey,
                           byteBuf, sigPipe, ttyIn, output, termios, rawPrev, restarts,
                           status, exiting, counter, subscribed, sigRx, lastTyped, chan,
                           mouseEnabled, clearOnExit, screenWritten, appPc, appOp,
                           appResult, appAt, backlog, awaitFirst, inputs, otherVars>>
       ELSE RestartBody(fail, TRUE)

Restart(fail) ==
    /\ mainPc = "idle"
    /\ RestartBody(fail, FALSE)

\* The end of restart: both listeners have started; Event::Restarted is sent.
RestartWait ==
    /\ mainPc = "r_wait"
    /\ RestartWaitOver(counter)
    /\ chan' = Append(chan, "Restarted")
    /\ lockOwner' = "none"
    /\ mainPc' = "idle"
    /\ status' = "Running"
    /\ lastOp' = "restart"
    /\ lastErr' = FALSE
    /\ awaitFirst' = (lastOp = "pause")
    /\ UNCHANGED <<exiting, counter, kbHandler, subscribed, sigRx, sizePc, keyPc, inWheel,
                   savedKey, byteBuf, sigPipe, ttyIn, lastTyped, output, mouseEnabled,
                   clearOnExit, screenWritten, termios, rawPrev, appPc, appOp,
                   appResult, appAt, backlog, restarts, inputs, otherVars>>

\* pause_internal(exit) up to its wait: the interrupt, the unregistering (with its
\* tick to the listener) and TermLock::pause, which drops the Output and with it the
\* RawTerminal. Drop needs the Term for itself: no other call is in progress.
Pause(exit) ==
    /\ mainPc = "idle"
    /\ lockOwner = "none"
    /\ exit => appPc = "idle"
    /\ backlog' = Len(chan)
    /\ awaitFirst' = FALSE
    /\ IF counter = 0
       THEN /\ mainPc' = IF exit THEN "dropped" ELSE "idle"
            /\ lastOp' = IF exit THEN "drop" ELSE "pause"
            /\ lastErr' = FALSE
            /\ UNCHANGED <<exiting, lockOwner, kbHandler, sigPipe, subscribed, sigRx,
                           output,
                           termios>>
       ELSE /\ sigPipe' = IF kbHandler THEN 1 ELSE sigPipe
            /\ kbHandler' = FALSE
            /\ subscribed' = FALSE
            /\ sigRx' = IF subscribed THEN sigRx + 1 ELSE sigRx
            /\ IF output
               THEN /\ output' = FALSE
                    /\ termios' = DropRawTerminal(rawPrev)
                    /\ lockOwner' = "main"
                    /\ exiting' = exit
                    /\ mainPc' = "p_wait"
                    /\ UNCHANGED <<lastOp, lastErr>>
               ELSE /\ mainPc' = IF exit THEN "dropped" ELSE "idle"
                    /\ lastOp' = IF exit THEN "drop" ELSE "pause"
                    /\ lastErr' = TRUE
                    /\ UNCHANGED <<output, termios, lockOwner, exiting>>
    /\ UNCHANGED <<status, counter, sizePc, keyPc, inWheel, savedKey, byteBuf, ttyIn,
                   lastTyped, chan, mouseEnabled, clearOnExit, screenWritten,
                   rawPrev, appPc, appOp, appResult, appAt, restarts, inputs, otherVars>>

\* The end of pause_internal: the started-counter is back to 0.
PauseWait ==
    /\ mainPc = "p_wait"
    /\ PauseWaitOver(counter)
    /\ lockOwner' = "none"
    /\ status' = "Stopped"
    /\ mainPc' = IF exiting THEN "dropped" ELSE "idle"
    /\ lastOp' = IF exiting THEN "drop" ELSE "pause"
    /\ lastErr' = FALSE
    /\ UNCHANGED <<exiting, counter, kbHandler, subscribed, sigRx, sizePc, keyPc, inWheel,
                   savedKey, byteBuf, sigPipe, ttyIn, lastTyped, chan, output,
                   mouseEnabled, clearOnExit, screenWritten, termios, rawPrev,
                   appPc, appOp, appResult, appAt, backlog, awaitFirst, restarts, inputs,
                   otherVars>>

\* ------------------------------------------------------ application thread
ApiOps == {"present", "term_size", "clear", "put_cell", "print", "print_with_attr",
           "set_cursor", "show_cursor", "enable_mouse_support", "disable_mouse_support",
           "clear_on_exit"}

\* The calls that write to TermLock.screen.
CanvasOps == {"clear", "put_cell", "print", "print_with_attr", "set_cursor", "show_cursor"}

\* The lifecycle position an application call sees: the state of the controller when
\* no lifecycle call is in progress, "busy" otherwise.
Position == IF mainPc = "idle" THEN status ELSE "busy"

\* The first line of every canvas call of Term: self.ensure_not_stopped()?
ApiCheck(op) ==
    /\ appPc = "idle"
    /\ mainPc \notin {"new", "dropped"}
    /\ inputs < MaxInputs
    /\ inputs' = inputs + 1
    /\ appAt' = Position
    /\ appOp' = op
    /\ IF EnsureNotStopped(counter)
       THEN /\ appPc' = "body"
            /\ appResult' = "none"
       ELSE /\ appPc' = "idle"
            /\ appResult' = "TerminalNotStarted"
    /\ UNCHANGED <<mainPc, exiting, status, lastOp, lastErr, lockOwner, counter, kbHandler,
                   subscribed, sigRx, sizePc, keyPc, inWheel, savedKey, byteBuf, sigPipe,
                   ttyIn, lastTyped, chan, output, mouseEnabled, clearOnExit, screenWritten,
                   termios, rawPrev, backlog, awaitFirst, restarts, otherVars>>

\* TermLock::enable_mouse_support / disable_mouse_support: the flag is stored, then
\* enable_mouse / disable_mouse needs the Output.
MouseSupport(enable, out) ==
    [flag |-> enable, result |-> IF out THEN "Ok" ELSE "TerminalNotStarted"]

\* TermLock::present: the Output is asked for first.
LockPresent(out) == IF out THEN "Ok" ELSE "TerminalNotStarted"

\* The rest of the call, under term_lock: the TermLock method of the same name.
ApiBody(arg) ==
    /\ appPc = "body"
    /\ lockOwner = "none"
    /\ appPc' = "idle"
    /\ appAt' = IF appAt = Position THEN appAt ELSE "busy"
    /\ CASE appOp = "present" ->
                /\ appResult' = LockPresent(output)
                /\ UNCHANGED <<mouseEnabled, clearOnExit, screenWritten>>
         [] appOp = "term_size" ->
                /\ appResult' = "Ok"
                /\ UNCHANGED <<mouseEnabled, clearOnExit, screenWritten>>
         [] appOp \in CanvasOps ->
                /\ appResult' = "Ok"
                /\ screenWritten' = TRUE
                /\ UNCHANGED <<mouseEnabled, clearOnExit>>
         [] appOp = "enable_mouse_support" ->
                /\ appResult' = MouseSupport(TRUE, output).result
                /\ mouseEnabled' = MouseSupport(TRUE, output).flag
                /\ UNCHANGED <<clearOnExit, screenWritten>>
         [] appOp = "disable_mouse_support" ->
                /\ appResult' = MouseSupport(FALSE, output).result
                /\ mouseEnabled' = MouseSupport(FALSE, output).flag
                /\ UNCHANGED <<clearOnExit, screenWritten>>
         [] appOp = "clear_on_exit" ->
                /\ appResult' = "Ok"
                /\ clearOnExit' = arg
                /\ UNCHANGED <<mouseEnabled, screenWritten>>
    /\ UNCHANGED <<mainPc, exiting, status, lastOp, lastErr, lockOwner, counter, kbHandler,
                   subscribed, sigRx, sizePc, keyPc, inWheel, savedKey, byteBuf, sigPipe,
                   ttyIn, lastTyped, chan, output, termios, rawPrev, appOp, backlog,
                   awaitFirst, restarts, inputs, otherVars>>

\* poll_event / peek_event: the receive; a Resize goes on to filter_event's lock.
Poll ==
    /\ appPc = "idle"
    /\ mainPc \notin {"new", "dropped"}
    /\ inputs < MaxInputs
    /\ inputs' = inputs + 1
    /\ chan # <<>>
    /\ chan' = Tail(chan)
    /\ backlog' = IF backlog > 0 THEN backlog - 1 ELSE 0
    /\ awaitFirst' = (awaitFirst /\ backlog > 0)
    /\ appAt' = IF backlog > 0 THEN "backlog" ELSE Position
    /\ appOp' = "poll_event"
    /\ IF Head(chan) = "Resize"
       THEN /\ appPc' = "filter"
            /\ appResult' = "none"
       ELSE /\ appPc' = "idle"
            /\ appResult' = Head(chan)
    /\ UNCHANGED <<mainPc, exiting, status, lastOp, lastErr, lockOwner, counter, kbHandler,
                   subscribed, sigRx, sizePc, keyPc, inWheel, savedKey, byteBuf, sigPipe,
                   ttyIn, lastTyped, output, mouseEnabled, clearOnExit, screenWritten,
                   termios, rawPrev, restarts, otherVars>>

\* The event filter_event makes of a Resize. on_resize re-reads the terminal size
\* and resizes the Screen when there is an Output and fails otherwise, and its
\* result is dropped; Term::term_size gives the size of the Screen when
\* ensure_not_stopped passes, and unwrap_or((0, 0)) stands in when it does not.
FilterResize(out, n) ==
    IF ~EnsureNotStopped(n) THEN "ResizeZero"
    ELSE IF out THEN "Resize"
    ELSE "ResizeStale"

\* filter_event on a Resize: on_resize under term_lock (its error is ignored), then
\* term_size().unwrap_or((0, 0)).
PollFilter ==
    /\ appPc = "filter"
    /\ lockOwner = "none"
    /\ appPc' = "idle"
    /\ appResult' = FilterResize(output, counter)
    /\ UNCHANGED <<mainPc, exiting, status, lastOp, lastErr, lockOwner, counter, kbHandler,
                   subscribed, sigRx, sizePc, keyPc, inWheel, savedKey, byteBuf, sigPipe,
                   ttyIn, lastTyped, chan, output, mouseEnabled, clearOnExit, screenWritten,
                   termios, rawPrev, appOp, appAt, backlog, awaitFirst, restarts, inputs,
                   otherVars>>

\* peek_event on an empty channel.
PeekTimeout ==
    /\ appPc = "idle"
    /\ mainPc \notin {"new", "dropped"}
    /\ inputs < MaxInputs
    /\ inputs' = inputs + 1
    /\ chan = <<>>
    /\ appResult' = "Timeout"
    /\ appAt' = Position
    /\ appOp' = "peek_event"
    /\ UNCHANGED <<mainPc, exiting, status, lastOp, lastErr, lockOwner, counter, kbHandler,
                   subscribed, sigRx, sizePc, keyPc, inWheel, savedKey, byteBuf, sigPipe,
                   ttyIn, lastTyped, chan, output, mouseEnabled, clearOnExit, screenWritten,
                   termios, rawPrev, appPc, backlog, awaitFirst, restarts, otherVars>>

\* send_event.
Send ==
    /\ appPc = "idle"
    /\ mainPc \notin {"new", "dropped"}
    /\ inputs < MaxInputs
    /\ inputs' = inputs + 1
    /\ chan' = Append(chan, "User")
    /\ appResult' = "Ok"
    /\ appAt' = Position
    /\ appOp' = "send_event"
    /\ UNCHANGED <<mainPc, exiting, status, lastOp, lastErr, lockOwner, counter, kbHandler,
                   subscribed, sigRx, sizePc, keyPc, inWheel, savedKey, byteBuf, sigPipe,
                   ttyIn, lastTyped, output, mouseEnabled, clearOnExit, screenWritten,
                   termios, rawPrev, appPc, backlog, awaitFirst, restarts, otherVars>>

\* ================================================================= Screen
DefaultAttr == 0
Attrs == {0, 1}

\* Cell::default() and Cell::empty().
DefaultCell == [ch |-> "SP", attr |-> DefaultAttr]
EmptyCell == [ch |-> "NUL", attr |-> DefaultAttr]

\* Cell::is_empty.
IsEmpty(cell) == cell.ch = "NUL" /\ cell.attr = DefaultAttr

ControlChars == {"NL", "CR", "TAB"}
WideChars == {"CJK"}

\* UnicodeWidthChar::width: None (here -1) for a control character, 0 for NUL,
\* 2 for a wide character, 1 otherwise.
CharWidth(ch) ==
    IF ch \in ControlChars THEN -1
    ELSE IF ch = "NUL" THEN 0
    ELSE IF ch \in WideChars THEN 2
    ELSE 1

\* ch.width().unwrap_or(2)
DisplayWidth(ch) == IF CharWidth(ch) = -1 THEN 2 ELSE CharWidth(ch)

\* Screen::index: 0 stands for Err(IndexOutOfBound); the cells are numbered from 1.
Index(w, h, row, col) == IF row >= h \/ col >= w THEN 0 ELSE row * w + col + 1

Fill(n, cell) == [i \in 1..n |-> cell]

\* Screen::new.
NewScreen(w, h) ==
    [width |-> w, height |-> h,
     cells |-> Fill(w * h, DefaultCell),
     cursor |-> [row |-> 0, col |-> 0, visible |-> FALSE],
     painted_cells |-> Fill(w * h, DefaultCell),
     painted_cursor |-> [row |-> 0, col |-> 0, visible |-> FALSE],
     clear_on_start |-> FALSE]

\* A put_cell that looks up (row, col) whatever the width of the character.
PutCellNarrow(cells, w, h, row, col, cell) ==
    LET i == Index(w, h, row, col)
    IN  IF i = 0 THEN [cells |-> cells, ret |-> DisplayWidth(cell.ch)]
        ELSE [cells |-> [cells EXCEPT ![i] = cell], ret |-> DisplayWidth(cell.ch)]

\* Screen::put_cell: the cells afterwards and the width returned.
PutCell(cells, w, h, row, col, cell) ==
    LET cw == DisplayWidth(cell.ch)
    IN  IF cw > 1
        THEN LET i == Index(w, h, row, col + 1)
             IN  IF i = 0 THEN [cells |-> cells, ret |-> cw]
                 ELSE [cells |-> [[cells EXCEPT ![i - 1] = cell]
                                    EXCEPT ![i] = [@ EXCEPT !.ch = "SP"]],
                       ret |-> cw]
        ELSE LET i == Index(w, h, row, col)
             IN  IF i = 0 THEN [cells |-> cells, ret |-> cw]
                 ELSE [cells |-> [cells EXCEPT ![i] = cell], ret |-> cw]

\* Canvas::print_with_attr: put_cell for each character, the column advanced by the
\* widths returned so far.
RECURSIVE PrintWithAttr(_, _, _, _, _, _, _, _)
PrintWithAttr(cells, w, h, row, col, content, attr, width) ==
    IF content = <<>> THEN [cells |-> cells, ret |-> width]
    ELSE LET r == PutCell(cells, w, h, row, col + width,
                          [ch |-> Head(content), attr |-> attr])
         IN  PrintWithAttr(r.cells, w, h, row, col, Tail(content), attr, width + r.ret)

\* present(), the scan from the right for "the last col that has contents": n is
\* the number of columns not yet looked at.
RECURSIVE EmptyColIndex(_, _, _, _)
EmptyColIndex(cells, w, row, n) ==
    IF n = 0 THEN 0
    ELSE IF IsEmpty(cells[row * w + n]) THEN EmptyColIndex(cells, w, row, n - 1)
    ELSE n

\* A scan that leaves painted_cells as they were.
ScanPaintedNone(cells, painted, w, row, ec) == painted

\* ... which copies the empty cells it passes into painted_cells.
ScanPainted(cells, painted, w, row, ec) ==
    [i \in 1..Len(painted) |->
        IF i > row * w + ec /\ i <= row * w + w THEN cells[i] ELSE painted[i]]

CursorGoto(row, col) == [c |-> "CursorGoto", row |-> row, col |-> col]
PutChar(ch) == [c |-> "PutChar", ch |-> ch]
ResetAttributes == [c |-> "ResetAttributes"]
SetAttribute(attr) == [c |-> "SetAttribute", attr |-> attr]
EraseEndOfLine == [c |-> "EraseEndOfLine"]
CursorShow(show) == [c |-> "CursorShow", show |-> show]

\* A loop body that paints a changed cell and forgets to record it as painted.
PaintCellForgetful(st, cells, w, row, col) ==
    LET i == row * w + col + 1
        cell == cells[i]
        dw == DisplayWidth(cell.ch)
    IN  IF st.wide THEN [st EXCEPT !.wide = FALSE]
        ELSE IF cell = st.painted[i] THEN st
        ELSE [st EXCEPT !.cmds = st.cmds \o <<PutChar(cell.ch)>>,
                        !.last = <<row, col + dw>>,
                        !.wide = (dw = 2)]

\* present(), the body of the loop over the columns of one row; at lists the
\* cells the PutChar commands paint, in the order of the commands.
PaintCell(st, cells, w, row, col) ==
    LET i == row * w + col + 1
        cell == cells[i]
        dw == DisplayWidth(cell.ch)
    IN  IF st.wide
        THEN [st EXCEPT !.wide = FALSE, !.painted[i] = cell]
        ELSE IF cell = st.painted[i] THEN st
        ELSE [cmds |-> st.cmds
                         \o (IF st.last # <<row, col>> THEN <<CursorGoto(row, col)>> ELSE
                                            <<>>)
                         \o (IF cell.attr # st.attr
                             THEN <<ResetAttributes, SetAttribute(cell.attr)>> ELSE <<>>)
                         \o <<PutChar(IF cell.ch \in ControlChars \cup {"NUL"}
                                      THEN "SP" ELSE cell.ch)>>,
              painted |-> [st.painted EXCEPT ![i] = cell],
              last |-> <<row, col + dw>>,
              attr |-> cell.attr,
              wide |-> (dw = 2),
              at |-> Append(st.at, <<row, col>>)]

RECURSIVE PaintCols(_, _, _, _, _, _)
PaintCols(st, cells, w, row, col, ec) ==
    IF col >= ec THEN st
    ELSE PaintCols(PaintCell(st, cells, w, row, col), cells, w, row, col + 1, ec)

\* A row that moves to the end of its contents even when they fill the row.
PaintRowAlwaysEnds(st, cells, w, row, clear) ==
    LET ec == EmptyColIndex(cells, w, row, w)
        s1 == PaintCols([st EXCEPT !.painted = ScanPainted(cells, st.painted, w, row, ec),
                                   !.wide = FALSE], cells, w, row, 0, ec)
    IN  [s1 EXCEPT !.cmds = s1.cmds \o <<CursorGoto(row, ec), ResetAttributes>>
                               \o (IF clear THEN <<EraseEndOfLine>> ELSE <<>>),
                   !.attr = DefaultAttr]

\* present(), one row: the scan, the columns, and the end of the line.
PaintRow(st, cells, w, row, clear) ==
    LET ec == EmptyColIndex(cells, w, row, w)
        s0 == [st EXCEPT !.painted = ScanPainted(cells, st.painted, w, row, ec),
                         !.wide = FALSE]
        s1 == PaintCols(s0, cells, w, row, 0, ec)
    IN  IF ec # w
        THEN [s1 EXCEPT !.cmds = s1.cmds \o <<CursorGoto(row, ec), ResetAttributes>>
                                   \o (IF clear THEN <<EraseEndOfLine>> ELSE <<>>),
                        !.attr = DefaultAttr]
        ELSE s1

RECURSIVE PaintRows(_, _, _, _, _, _)
PaintRows(st, cells, w, h, row, clear) ==
    IF row >= h THEN st
    ELSE PaintRows(PaintRow(st, cells, w, row, clear), cells, w, h, row + 1, clear)

\* Screen::present: the command list and the Screen afterwards.
Present(s) ==
    LET st0 == [cmds |-> <<CursorShow(FALSE), CursorGoto(0, 0), ResetAttributes>>,
                painted |-> s.painted_cells,
                last |-> <<0, 0>>,
                attr |-> DefaultAttr,
                wide |-> FALSE,
                at |-> <<>>]
        st == PaintRows(st0, s.cells, s.width, s.height, 0, s.clear_on_start)
    IN  [cmds |-> st.cmds \o <<CursorGoto(s.cursor.row, s.cursor.col)>>
                    \o (IF s.cursor.visible THEN <<CursorShow(TRUE)>> ELSE <<>>),
         scr |-> [s EXCEPT !.painted_cells = st.painted, !.painted_cursor = s.cursor],
         at |-> st.at]

Min(a, b) == IF a < b THEN a ELSE b
Max(a, b) == IF a > b THEN a ELSE b

\* Screen::copy_cells.
CopyCells(original, oldw, oldh, w, h) ==
    [i \in 1..(w * h) |->
        LET row == (i - 1) \div w
            col == (i - 1) % w
        IN  IF row < Min(h, oldh) /\ col < Min(w, oldw)
            THEN original[row * oldw + col + 1] ELSE EmptyCell]

\* Screen::resize.
Resize(s, w, h) ==
    [s EXCEPT !.cells = CopyCells(s.cells, s.width, s.height, w, h),
              !.painted_cells = Fill(w * h, EmptyCell),
              !.width = w,
              !.height = h,
              !.cursor = [@ EXCEPT !.row = Min(@, h), !.col = Min(@, w)]]

\* Screen::set_cursor.
SetCursor(s, row, col) ==
    [s EXCEPT !.cursor = [row |-> Min(row, Max(s.height, 1) - 1),
                          col |-> Min(col, Max(s.width, 1) - 1),
                          visible |-> TRUE]]

\* ------------------------------------------ BoundedCanvas (src/src/canvas.rs)
\* BoundedCanvas::new: a sub-area of a canvas.
BoundedCanvas(top, left, width, height) ==
    [top |-> top, left |-> left, width |-> width, height |-> height]

\* BoundedCanvas::put_cell on a Screen: cells afterwards and the width returned.
BoundedPutCell(cells, w, h, b, row, col, cell) ==
    IF row >= b.height \/ col >= b.width
    THEN [cells |-> cells, ret |-> DisplayWidth(cell.ch)]
    ELSE PutCell(cells, w, h, row + b.top, col + b.left, cell)

\* Canvas::print_with_attr as BoundedCanvas inherits it.
RECURSIVE BoundedPrintWithAttr(_, _, _, _, _, _, _, _, _)
BoundedPrintWithAttr(cells, w, h, b, row, col, content, attr, width) ==
    IF content = <<>> THEN [cells |-> cells, ret |-> width]
    ELSE LET r == BoundedPutCell(cells, w, h, b, row, col + width,
                                 [ch |-> Head(content), attr |-> attr])
         IN  BoundedPrintWithAttr(r.cells, w, h, b, row, col, Tail(content), attr,
                                  width + r.ret)

\* BoundedCanvas::clear: the canvas underneath gets Cell::empty() at every position
\* of the rectangle, row by row; n counts the positions done.
RECURSIVE BoundedClear(_, _, _, _, _)
BoundedClear(cells, w, h, b, n) ==
    IF n >= b.width * b.height THEN cells
    ELSE BoundedClear(PutCell(cells, w, h, b.top + (n \div b.width),
                              b.left + (n % b.width), EmptyCell).cells,
                      w, h, b, n + 1)

\* BoundedCanvas::set_cursor on a Screen.
BoundedSetCursor(s, b, row, col) ==
    IF row >= b.height \/ col >= b.width THEN s
    ELSE SetCursor(s, row + b.top, col + b.left)

\* ------------------------------------------------- calls on a Screen
PutCells == {[ch |-> "a", attr |-> 0], [ch |-> "a", attr |-> 1],
             [ch |-> "CJK", attr |-> 0], [ch |-> "NL", attr |-> 0],
             [ch |-> "NUL", attr |-> 1]}
Contents == {<<"H", "e", "l", "l", "o">>, <<"CJK", "a">>}
ScreenSizes == {<<5, 1>>, <<2, 2>>}
ResizeSizes == {<<1, 1>>, <<3, 2>>}
NoCall == [op |-> "none"]

TermUnchanged == UNCHANGED <<termVars, layoutVars, clickVars, regionVars, decodeVars>>

ScrPutCell(row, col, cell) ==
    /\ scrOps < MaxScreenOps
    /\ LET r == PutCell(scr.cells, scr.width, scr.height, row, col, cell)
       IN  /\ scr' = [scr EXCEPT !.cells = r.cells]
           /\ scrLast' = [op |-> "put_cell", row |-> row, col |-> col, cell |-> cell,
                          ret |-> r.ret]
    /\ scrOps' = scrOps + 1
    /\ scrRun' = 0
    /\ UNCHANGED scrCmds
    /\ TermUnchanged

ScrPrintWithAttr(row, col, content, attr) ==
    /\ scrOps < MaxScreenOps
    /\ LET r == PrintWithAttr(scr.cells, scr.width, scr.height, row, col, content, attr, 0)
       IN  /\ scr' = [scr EXCEPT !.cells = r.cells]
           /\ scrLast' = [op |-> "print_with_attr", row |-> row, col |-> col,
                          content |-> content, attr |-> attr, ret |-> r.ret]
    /\ scrOps' = scrOps + 1
    /\ scrRun' = 0
    /\ UNCHANGED scrCmds
    /\ TermUnchanged

\* Screen::clear.
ScrClear ==
    /\ scrOps < MaxScreenOps
    /\ scr' = [scr EXCEPT !.cells = Fill(scr.width * scr.height, EmptyCell)]
    /\ scrLast' = [op |-> "clear"]
    /\ scrOps' = scrOps + 1
    /\ scrRun' = 0
    /\ UNCHANGED scrCmds
    /\ TermUnchanged

ScrSetCursor(row, col) ==
    /\ scrOps < MaxScreenOps
    /\ scr' = SetCursor(scr, row, col)
    /\ scrLast' = [op |-> "set_cursor", row |-> row, col |-> col]
    /\ scrOps' = scrOps + 1
    /\ scrRun' = 0
    /\ UNCHANGED scrCmds
    /\ TermUnchanged

\* Screen::show_cursor.
ScrShowCursor(show) ==
    /\ scrOps < MaxScreenOps
    /\ scr' = [scr EXCEPT !.cursor.visible = show]
    /\ scrLast' = [op |-> "show_cursor", show |-> show]
    /\ scrOps' = scrOps + 1
    /\ scrRun' = 0
    /\ UNCHANGED scrCmds
    /\ TermUnchanged

ScrResize(w, h) ==
    /\ scrOps < MaxScreenOps
    /\ scr' = Resize(scr, w, h)
    /\ scrLast' = [op |-> "resize", w |-> w, h |-> h]
    /\ scrOps' = scrOps + 1
    /\ scrRun' = 0
    /\ UNCHANGED scrCmds
    /\ TermUnchanged

ScrPresent ==
    /\ scrRun < 2
    /\ scr' = Present(scr).scr
    /\ scrCmds' = Present(scr).cmds
    /\ scrLast' = [op |-> "present", at |-> Present(scr).at]
    /\ scrRun' = scrRun + 1
    /\ UNCHANGED scrOps
    /\ TermUnchanged

\* The rectangles a BoundedCanvas is made with.
CanvasRects == {BoundedCanvas(0, 0, 1, 1), BoundedCanvas(0, 1, 2, 1),
                BoundedCanvas(1, 0, 2, 2), BoundedCanvas(0, 1, 0, 1)}

\* BoundedCanvas::new(..., &mut screen) then put_cell.
BcPutCell(b, row, col, cell) ==
    /\ scrOps < MaxScreenOps
    /\ LET r == BoundedPutCell(scr.cells, scr.width, scr.height, b, row, col, cell)
       IN  /\ scr' = [scr EXCEPT !.cells = r.cells]
           /\ scrLast' = [op |-> "bounded_put_cell", b |-> b, row |-> row, col |-> col,
                          cell |-> cell, ret |-> r.ret]
    /\ scrOps' = scrOps + 1
    /\ scrRun' = 0
    /\ UNCHANGED scrCmds
    /\ TermUnchanged

\* BoundedCanvas::new(..., &mut screen) then print_with_attr.
BcPrintWithAttr(b, row, col, content, attr) ==
    /\ scrOps < MaxScreenOps
    /\ LET r == BoundedPrintWithAttr(scr.cells, scr.width, scr.height, b, row, col,
                                     content, attr, 0)
       IN  /\ scr' = [scr EXCEPT !.cells = r.cells]
           /\ scrLast' = [op |-> "bounded_print_with_attr", b |-> b, row |-> row,
                          col |-> col, content |-> content, attr |-> attr,
                          ret |-> r.ret]
    /\ scrOps' = scrOps + 1
    /\ scrRun' = 0
    /\ UNCHANGED scrCmds
    /\ TermUnchanged

\* BoundedCanvas::new(..., &mut screen) then clear.
BcClear(b) ==
    /\ scrOps < MaxScreenOps
    /\ scr' = [scr EXCEPT !.cells = BoundedClear(scr.cells, scr.width, scr.height, b, 0)]
    /\ scrLast' = [op |-> "bounded_clear", b |-> b]
    /\ scrOps' = scrOps + 1
    /\ scrRun' = 0
    /\ UNCHANGED scrCmds
    /\ TermUnchanged

\* BoundedCanvas::new(..., &mut screen) then set_cursor.
BcSetCursor(b, row, col) ==
    /\ scrOps < MaxScreenOps
    /\ scr' = BoundedSetCursor(scr, b, row, col)
    /\ scrLast' = [op |-> "bounded_set_cursor", b |-> b, row |-> row, col |-> col]
    /\ scrOps' = scrOps + 1
    /\ scrRun' = 0
    /\ UNCHANGED scrCmds
    /\ TermUnchanged

\* Screen::new(w, h) and clear_on_start(c).
InitScreen ==
    /\ \E size \in ScreenSizes, c \in BOOLEAN :
          scr = [NewScreen(size[1], size[2]) EXCEPT !.clear_on_start = c]
    /\ scrCmds = <<>>
    /\ scrLast = NoCall
    /\ scrRun = 0
    /\ scrOps = 0

\* TermLock::default: Screen::new(0, 0), which Term leaves to the Screen's own calls.
IdleScreen ==
    /\ scr = NewScreen(0, 0)
    /\ scrCmds = <<>>
    /\ scrLast = NoCall
    /\ scrRun = 0
    /\ scrOps = 0

NextScreen ==
    \/ \E row \in 0..MaxPos, col \in 0..MaxPos, cell \in PutCells :
          ScrPutCell(row, col, cell)
    \/ \E content \in Contents : ScrPrintWithAttr(0, 0, content, DefaultAttr)
    \/ ScrClear
    \/ \E row \in 0..MaxPos, col \in 0..MaxPos : ScrSetCursor(row, col)
    \/ \E show \in BOOLEAN : ScrShowCursor(show)
    \/ \E size \in ResizeSizes : ScrResize(size[1], size[2])
    \/ ScrPresent

\* Calls on a Screen directly and through a BoundedCanvas over it.
NextCanvas ==
    \/ \E row \in 0..MaxPos, col \in 0..MaxPos, cell \in PutCells :
          ScrPutCell(row, col, cell)
    \/ \E content \in Contents : ScrPrintWithAttr(0, 0, content, DefaultAttr)
    \/ \E b \in CanvasRects, row \in 0..MaxPos, col \in 0..MaxPos, cell \in PutCells :
          BcPutCell(b, row, col, cell)
    \/ \E b \in CanvasRects, col \in 0..MaxPos, content \in Contents :
          BcPrintWithAttr(b, 0, col, content, DefaultAttr)
    \/ \E b \in CanvasRects : BcClear(b)
    \/ \E b \in CanvasRects, row \in 0..MaxPos, col \in 0..MaxPos :
          BcSetCursor(b, row, col)

\* --------------------------------------------- widgets (src/src/widget/*.rs)
\* enum Size.
FixedSize(n) == [t |-> "Fixed", v |-> n]
PercentSize(p) == [t |-> "Percent", v |-> p]
DefaultSize == [t |-> "Default", v |-> 0]

\* Size::calc_fixed_size.
CalcFixedSize(size, total_size, default_size) ==
    CASE size.t = "Fixed" -> Min(total_size, size.v)
      [] size.t = "Percent" -> Min(total_size, (total_size * size.v) \div 100)
      [] OTHER -> default_size

\* struct Rectangle; ok is FALSE for the Err of the Win's rect_* functions.
Rectangle(top, left, width, height) ==
    [ok |-> TRUE, top |-> top, left |-> left, width |-> width, height |-> height]
RectErr == [ok |-> FALSE, top |-> 0, left |-> 0, width |-> 0, height |-> 0]

\* Rectangle::contains.
Contains(rect, row, col) ==
    IF row < rect.top \/ row >= rect.top + rect.height THEN FALSE
    ELSE IF col < rect.left \/ col >= rect.left + rect.width THEN FALSE
    ELSE TRUE

\* Rectangle::adjust_origin.
AdjustOrigin(rect) == Rectangle(0, 0, rect.width, rect.height)

\* Events: the keys that carry a position, and one that does not.
MouseKinds == {"MousePress", "MouseRelease", "MouseHold", "SingleClick", "DoubleClick",
               "WheelDown", "WheelUp"}
EventOf(kind, row, col) == [kind |-> kind, row |-> row, col |-> col]
NoEvent == EventOf("None", 0, 0)

\* util::adjust_event: None (NoEvent) for a position outside inner_rect, the
\* position relative to the rectangle's origin (Rectangle::relative_to_origin)
\* inside it, and any other event as it is.
AdjustEvent(event, inner_rect) ==
    IF event.kind \in MouseKinds
    THEN IF Contains(inner_rect, event.row, event.col)
         THEN EventOf(event.kind, event.row - inner_rect.top, event.col - inner_rect.left)
         ELSE NoEvent
    ELSE event

\* What Win::new sets: no margin, padding or border, no title, title_on_top.
\* The four sides are in the order top, right, bottom, left; header stands for
\* title.is_some() || right_prompt.is_some().
NoBox ==
    [margin |-> <<DefaultSize, DefaultSize, DefaultSize, DefaultSize>>,
     padding |-> <<DefaultSize, DefaultSize, DefaultSize, DefaultSize>>,
     border |-> <<FALSE, FALSE, FALSE, FALSE>>,
     header |-> FALSE,
     title_on_top |-> TRUE]

\* The widgets. hint is size_hint() as <<width, height>>, -1 standing for None.
\* A leaf is a widget of the application that answers every event with a message
\* naming itself and the event it was handed.
Leaf(id, basis, grow, shrink, hint) ==
    [kind |-> "leaf", id |-> id, basis |-> basis, grow |-> grow, shrink |-> shrink,
     hint |-> hint, box |-> NoBox, kids |-> <<>>]
HSplit(basis, grow, shrink, splits) ==
    [kind |-> "hsplit", id |-> 0, basis |-> basis, grow |-> grow, shrink |-> shrink,
     hint |-> <<-1, -1>>, box |-> NoBox, kids |-> splits]
VSplit(basis, grow, shrink, splits) ==
    [kind |-> "vsplit", id |-> 0, basis |-> basis, grow |-> grow, shrink |-> shrink,
     hint |-> <<-1, -1>>, box |-> NoBox, kids |-> splits]
Win(box, basis, grow, shrink, inner) ==
    [kind |-> "win", id |-> 0, basis |-> basis, grow |-> grow, shrink |-> shrink,
     hint |-> <<-1, -1>>, box |-> box, kids |-> <<inner>>]
Stack(inner) ==
    [kind |-> "stack", id |-> 0, basis |-> DefaultSize, grow |-> 1, shrink |-> 1,
     hint |-> <<-1, -1>>, box |-> NoBox, kids |-> inner]

RECURSIVE SumSeq(_)
SumSeq(q) == IF q = <<>> THEN 0 ELSE Head(q) + SumSeq(Tail(q))

RECURSIVE MaxSeq(_)
MaxSeq(q) == IF q = <<>> THEN 0 ELSE Max(Head(q), MaxSeq(Tail(q)))

BoolToInt(b) == IF b THEN 1 ELSE 0

\* Widget::size_hint of each widget; d is 1 for the width and 2 for the height.
RECURSIVE SizeHint(_)
SizeHintAlong(w, d, summed) ==
    LET hints == [i \in 1..Len(w.kids) |-> SizeHint(w.kids[i])[d]]
        some == [i \in 1..Len(hints) |-> IF hints[i] = -1 THEN 0 ELSE hints[i]]
    IN  IF \A i \in 1..Len(hints) : hints[i] = -1 THEN -1
        ELSE IF summed THEN SumSeq(some) ELSE MaxSeq(some)
SizeHint(w) ==
    CASE w.kind = "leaf" -> w.hint
      [] w.kind = "hsplit" -> <<SizeHintAlong(w, 1, TRUE), SizeHintAlong(w, 2, FALSE)>>
      [] w.kind = "vsplit" -> <<SizeHintAlong(w, 1, FALSE), SizeHintAlong(w, 2, TRUE)>>
      [] w.kind = "win" ->
            LET h == SizeHint(w.kids[1])
            IN  <<IF h[1] = -1 THEN -1
                  ELSE h[1] + BoolToInt(w.box.border[4]) + BoolToInt(w.box.border[2]),
                  IF h[2] = -1 THEN -1
                  ELSE h[2] + BoolToInt(w.box.border[1]) + BoolToInt(w.box.border[3])>>
      [] OTHER -> <<SizeHintAlong(w, 1, FALSE), SizeHintAlong(w, 2, FALSE)>>

\* Split::inner_size along d.
InnerSize(w, d) ==
    IF SizeHint(w)[d] = -1 THEN DefaultSize ELSE FixedSize(SizeHint(w)[d])

\* SplitContainer::retrieve_split_info: the target sizes of the splits along d
\* (1 for an HSplit, 2 for a VSplit) in a container of extent actual_size.
SplitSizes(splits, d, actual_size) ==
    [i \in 1..Len(splits) |->
        CalcFixedSize(IF splits[i].basis.t = "Default" THEN InnerSize(splits[i], d)
                      ELSE splits[i].basis,
                      actual_size, actual_size)]

SplitOp(target_total_size, actual_size) ==
    IF target_total_size = actual_size THEN "Noop"
    ELSE IF target_total_size < actual_size THEN "Grow"
    ELSE "Shrink"

\* A retrieve_split_info that shares the difference among the splits, not among
\* their factors.
RetrieveSplitInfoPerSplit(splits, d, actual_size) ==
    LET split_sizes == SplitSizes(splits, d, actual_size)
        target_total_size == SumSeq(split_sizes)
        op == SplitOp(target_total_size, actual_size)
        size_diff == IF op = "Grow" THEN actual_size - target_total_size
                     ELSE target_total_size - actual_size
        unit == IF splits = <<>> THEN 0 ELSE size_diff \div Len(splits)
    IN  [idx \in 1..Len(splits) |->
            CASE op = "Noop" -> split_sizes[idx]
              [] op = "Grow" -> split_sizes[idx] + splits[idx].grow * unit
              [] OTHER -> split_sizes[idx]
                          - Min(split_sizes[idx], splits[idx].shrink * unit)]

RetrieveSplitInfo(splits, d, actual_size) ==
    LET split_sizes == SplitSizes(splits, d, actual_size)
        target_total_size == SumSeq(split_sizes)
        op == SplitOp(target_total_size, actual_size)
        size_diff == CASE op = "Noop" -> 0
                       [] op = "Grow" -> actual_size - target_total_size
                       [] OTHER -> target_total_size - actual_size
        split_factors == [i \in 1..Len(splits) |->
                            CASE op = "Noop" -> 0
                              [] op = "Shrink" -> splits[i].shrink
                              [] OTHER -> splits[i].grow]
        total_factors == SumSeq(split_factors)
        unit == IF total_factors = 0 THEN 0 ELSE size_diff \div total_factors
    IN  [idx \in 1..Len(splits) |->
            LET diff == split_factors[idx] * unit
            IN  CASE op = "Noop" -> split_sizes[idx]
                  [] op = "Grow" -> split_sizes[idx] + diff
                  [] OTHER -> split_sizes[idx] - Min(split_sizes[idx], diff)]

\* A draw loop that does not cut a split at the edge of the container.
RECURSIVE DrawSpansUncut(_, _, _)
DrawSpansUncut(targets, left, extent) ==
    IF targets = <<>> THEN <<>>
    ELSE <<[start |-> left, size |-> Head(targets)]>>
         \o DrawSpansUncut(Tail(targets), left + Head(targets), extent)

\* The loop of HSplit::draw and VSplit::draw: where each split starts and the
\* extent of the BoundedCanvas it is drawn on.
RECURSIVE DrawSpans(_, _, _)
DrawSpans(targets, left, extent) ==
    IF targets = <<>> THEN <<>>
    ELSE LET right == Min(left + Head(targets), extent)
         IN  <<[start |-> left, size |-> right - left]>>
             \o DrawSpans(Tail(targets), right, extent)

\* The loop of HSplit::on_event and VSplit::on_event: where each split's sub_rect
\* starts and its extent.
RECURSIVE EventSpans(_, _, _)
EventSpans(targets, left, extent) ==
    IF targets = <<>> THEN <<>>
    ELSE LET right == Min(left + Head(targets), extent)
         IN  <<[start |-> left, size |-> Head(targets)]>>
             \o EventSpans(Tail(targets), right, extent)

\* Win::rect_reserve_margin.
RectReserveMargin(box, rect) ==
    LET margin_top == CalcFixedSize(box.margin[1], rect.height, 0)
        margin_right == CalcFixedSize(box.margin[2], rect.width, 0)
        margin_bottom == CalcFixedSize(box.margin[3], rect.height, 0)
        margin_left == CalcFixedSize(box.margin[4], rect.width, 0)
    IN  IF \/ margin_top + margin_bottom >= rect.height
           \/ margin_left + margin_right >= rect.width
        THEN RectErr
        ELSE Rectangle(margin_top, margin_left,
                       rect.width - (margin_left + margin_right),
                       rect.height - (margin_top + margin_bottom))

\* Win::rect_reserve_border.
RectReserveBorder(box, rect) ==
    LET border_top == box.border[1] \/ (box.title_on_top /\ box.header)
        border_bottom == box.border[3] \/ (~box.title_on_top /\ box.header)
        border_left == box.border[4]
        border_right == box.border[2]
    IN  IF ~rect.ok THEN RectErr
        ELSE IF /\ border_top \/ border_bottom
                /\ rect.height < 1 \/ (border_top /\ border_bottom /\ rect.height < 2)
        THEN RectErr
        ELSE IF /\ border_left \/ border_right
                /\ rect.width < 1 \/ (border_left /\ border_right /\ rect.width < 2)
        THEN RectErr
        ELSE Rectangle(rect.top + BoolToInt(border_top),
                       rect.left + BoolToInt(border_left),
                       rect.width - BoolToInt(border_left) - BoolToInt(border_right),
                       rect.height - BoolToInt(border_top) - BoolToInt(border_bottom))

\* Win::rect_reserve_padding.
RectReservePadding(box, rect) ==
    LET padding_top == CalcFixedSize(box.padding[1], rect.height, 0)
        padding_right == CalcFixedSize(box.padding[2], rect.width, 0)
        padding_bottom == CalcFixedSize(box.padding[3], rect.height, 0)
        padding_left == CalcFixedSize(box.padding[4], rect.width, 0)
    IN  IF ~rect.ok THEN RectErr
        ELSE IF \/ padding_top + padding_bottom >= rect.height
                \/ padding_left + padding_right >= rect.width
        THEN RectErr
        ELSE Rectangle(rect.top + padding_top, rect.left + padding_left,
                       rect.width - (padding_left + padding_right),
                       rect.height - (padding_top + padding_bottom))

\* Win::calc_inner_rect: the rectangle inside margin, border and padding.
CalcInnerRect(box, rect) ==
    RectReservePadding(box, RectReserveBorder(box, RectReserveMargin(box, rect)))

\* The rectangle of split i of an HSplit (d = 1) or a VSplit (d = 2) drawn on a
\* canvas that lies at abs: BoundedCanvas::new(0, left, right - left, height, canvas)
\* and BoundedCanvas::new(top, 0, width, bottom - top, canvas).
SplitCanvas(abs, d, span) ==
    IF d = 1 THEN Rectangle(abs.top, abs.left + span.start, span.size, abs.height)
    ELSE Rectangle(abs.top + span.start, abs.left, abs.width, span.size)

\* Draw::draw of each widget on a canvas that lies at abs on the screen: whether it
\* returned Ok, and the leaves that were drawn with the place of their canvas.
RECURSIVE Draw(_, _)
RECURSIVE DrawSplits(_, _, _, _, _)
RECURSIVE DrawStack(_, _, _)

\* HSplit::draw, VSplit::draw: the result of a split's draw is dropped.
DrawSplits(splits, spans, abs, d, i) ==
    IF i > Len(splits) THEN <<>>
    ELSE Draw(splits[i], SplitCanvas(abs, d, spans[i])).leaves
         \o DrawSplits(splits, spans, abs, d, i + 1)

\* Stack::draw: back to front, given up at the first widget that fails.
DrawStack(inner, abs, i) ==
    IF i > Len(inner) THEN [ok |-> TRUE, leaves |-> <<>>]
    ELSE LET r == Draw(inner[i], abs)
         IN  IF ~r.ok THEN r
             ELSE LET rest == DrawStack(inner, abs, i + 1)
                  IN  [ok |-> rest.ok, leaves |-> r.leaves \o rest.leaves]

Draw(w, abs) ==
    CASE w.kind = "leaf" -> [ok |-> TRUE, leaves |-> <<[id |-> w.id, rect |-> abs]>>]
      [] w.kind = "hsplit" ->
            [ok |-> TRUE,
             leaves |-> DrawSplits(w.kids,
                                   DrawSpans(RetrieveSplitInfo(w.kids, 1, abs.width), 0,
                                             abs.width),
                                   abs, 1, 1)]
      [] w.kind = "vsplit" ->
            [ok |-> TRUE,
             leaves |-> DrawSplits(w.kids,
                                   DrawSpans(RetrieveSplitInfo(w.kids, 2, abs.height), 0,
                                             abs.height),
                                   abs, 2, 1)]
      [] w.kind = "win" ->
            LET inner == CalcInnerRect(w.box, Rectangle(0, 0, abs.width, abs.height))
            IN  IF ~inner.ok THEN [ok |-> FALSE, leaves |-> <<>>]
                ELSE Draw(w.kids[1], Rectangle(abs.top + inner.top, abs.left + inner.left,
                                               inner.width, inner.height))
      [] OTHER -> DrawStack(w.kids, abs, 1)

\* Widget::on_event of each widget: the messages returned.
RECURSIVE OnEvent(_, _, _)
RECURSIVE OnEventSplits(_, _, _, _, _, _)
RECURSIVE OnEventStack(_, _, _, _)

\* The sub_rect of HSplit::on_event (d = 1) and of VSplit::on_event (d = 2).
SubRect(rect, d, span) ==
    IF d = 1 THEN Rectangle(rect.top, span.start, span.size, rect.height)
    ELSE Rectangle(span.start, rect.left, rect.width, span.size)

\* The sub_rect that HSplit::on_event or VSplit::on_event builds for each of its
\* splits, tests the position of the event against and, with adjust_origin, hands
\* the split.
SubRects(w, rect) ==
    CASE w.kind = "hsplit" ->
            LET spans == EventSpans(RetrieveSplitInfo(w.kids, 1, rect.width), 0,
                                    rect.width)
            IN  [i \in 1..Len(w.kids) |-> SubRect(rect, 1, spans[i])]
      [] w.kind = "vsplit" ->
            LET spans == EventSpans(RetrieveSplitInfo(w.kids, 2, rect.height), 0,
                                    rect.height)
            IN  [i \in 1..Len(w.kids) |-> SubRect(rect, 2, spans[i])]
      [] OTHER -> <<>>

\* HSplit::on_event, VSplit::on_event: the messages of every split, appended.
OnEventSplits(splits, spans, event, rect, d, i) ==
    IF i > Len(splits) THEN <<>>
    ELSE LET sub_rect == SubRect(rect, d, spans[i])
             ev == AdjustEvent(event, sub_rect)
         IN  (IF ev = NoEvent THEN <<>>
              ELSE OnEvent(splits[i], ev, AdjustOrigin(sub_rect)))
             \o OnEventSplits(splits, spans, event, rect, d, i + 1)

\* A Stack::on_event that asks the widgets from bottom to top.
OnEventStackBottomFirst(inner, event, rect, i) ==
    LET answering == {j \in 1..i : OnEvent(inner[j], event, rect) # <<>>}
    IN  IF answering = {} THEN <<>>
        ELSE OnEvent(inner[CHOOSE j \in answering : \A k \in answering : j <= k],
                     event, rect)

\* Stack::on_event: from top to bottom, the first answer that is not empty.
OnEventStack(inner, event, rect, i) ==
    IF i < 1 THEN <<>>
    ELSE LET message == OnEvent(inner[i], event, rect)
         IN  IF message # <<>> THEN message
             ELSE OnEventStack(inner, event, rect, i - 1)

\* The widgets of inner that the loop of Stack::on_event calls on_event of, in the
\* order it calls them.
RECURSIVE StackCalled(_, _, _, _)
StackCalled(inner, event, rect, i) ==
    IF i < 1 THEN <<>>
    ELSE IF OnEvent(inner[i], event, rect) # <<>> THEN <<i>>
    ELSE <<i>> \o StackCalled(inner, event, rect, i - 1)

OnEvent(w, event, rect) ==
    CASE w.kind = "leaf" -> <<[id |-> w.id, event |-> event]>>
      [] w.kind = "hsplit" ->
            OnEventSplits(w.kids,
                          EventSpans(RetrieveSplitInfo(w.kids, 1, rect.width), 0,
                                     rect.width),
                          event, rect, 1, 1)
      [] w.kind = "vsplit" ->
            OnEventSplits(w.kids,
                          EventSpans(RetrieveSplitInfo(w.kids, 2, rect.height), 0,
                                     rect.height),
                          event, rect, 2, 1)
      [] w.kind = "win" ->
            LET inner_rect == CalcInnerRect(w.box, rect)
            IN  IF ~inner_rect.ok THEN <<>>
                ELSE IF AdjustEvent(event, inner_rect) = NoEvent THEN <<>>
                ELSE OnEvent(w.kids[1], AdjustEvent(event, inner_rect), inner_rect)
      [] OTHER -> OnEventStack(w.kids, event, rect, Len(w.kids))

\* ------------------------------------------------------- calls on widgets
MaxKids == 2
MaxExtent == 4
CrossExtent == 2

NoLayoutCall == [op |-> "none"]

\* The splits the application gives an HSplit or VSplit: basis, grow and shrink.
\* HintedSize(n) stands for a split with the default basis whose size_hint is n.
HintedSize(n) == [t |-> "Hinted", v |-> n]
SplitBases == {DefaultSize, FixedSize(1), FixedSize(3), HintedSize(2)}
SplitFactors == {<<0, 0>>, <<1, 2>>, <<2, 1>>}
SplitLists ==
    UNION {[1..n -> SplitBases \X SplitFactors] : n \in 0..MaxKids}
LeavesOf(list) ==
    [i \in 1..Len(list) |->
        IF list[i][1].t = "Hinted"
        THEN Leaf(i, DefaultSize, list[i][2][1], list[i][2][2],
                  <<list[i][1].v, list[i][1].v>>)
        ELSE Leaf(i, list[i][1], list[i][2][1], list[i][2][2], <<-1, -1>>)]

\* The splits of the tests exceeded_should_be_ignored, grow and shrink, in 80, and
\* a split with a percentage as its basis.
TestLists ==
    {<<<<FixedSize(60), <<1, 0>>>>, <<FixedSize(60), <<1, 0>>>>,
       <<FixedSize(60), <<1, 0>>>>>>,
     <<<<FixedSize(10), <<1, 1>>>>, <<FixedSize(10), <<2, 1>>>>>>,
     <<<<FixedSize(70), <<1, 1>>>>, <<FixedSize(70), <<1, 2>>>>>>,
     <<<<PercentSize(50), <<1, 1>>>>, <<FixedSize(10), <<1, 1>>>>>>}

WindowWithId(id) == Leaf(id, DefaultSize, 1, 1, <<-1, -1>>)
Border(t, r, b, l) == [NoBox EXCEPT !.border = <<t, r, b, l>>]

\* Compositions of HSplit, VSplit, Win and Stack.
Composites ==
    {HSplit(DefaultSize, 1, 1,
            <<VSplit(DefaultSize, 1, 1, <<WindowWithId(1), WindowWithId(3)>>),
              VSplit(DefaultSize, 1, 1, <<WindowWithId(2), WindowWithId(4)>>)>>),
     Win(Border(TRUE, TRUE, TRUE, TRUE), DefaultSize, 1, 1, WindowWithId(1)),
     Win([NoBox EXCEPT !.margin[1] = FixedSize(1)], DefaultSize, 1, 1,
         HSplit(DefaultSize, 1, 1, <<WindowWithId(1), WindowWithId(2)>>)),
     Win(Border(FALSE, FALSE, FALSE, TRUE), DefaultSize, 1, 1,
         VSplit(DefaultSize, 1, 1, <<WindowWithId(1), WindowWithId(2)>>)),
     Stack(<<HSplit(DefaultSize, 1, 1,
                    <<Win(Border(TRUE, TRUE, TRUE, TRUE), DefaultSize, 1, 1,
                          WindowWithId(1)),
                      Win(Border(TRUE, TRUE, TRUE, TRUE), DefaultSize, 1, 1,
                          WindowWithId(2))>>),
             Win([Border(TRUE, TRUE, TRUE, TRUE)
                     EXCEPT !.margin = <<PercentSize(30), PercentSize(30),
                                         PercentSize(30), PercentSize(30)>>],
                 DefaultSize, 1, 1, WindowWithId(3))>>),
     Stack(<<WindowWithId(1),
             Win(Border(TRUE, TRUE, TRUE, TRUE), DefaultSize, 1, 1, WindowWithId(2)),
             Win([Border(TRUE, TRUE, TRUE, TRUE) EXCEPT !.margin[4] = FixedSize(2)],
                 DefaultSize, 1, 1, WindowWithId(3))>>),
     HSplit(DefaultSize, 1, 1,
            <<Win(Border(TRUE, TRUE, TRUE, TRUE), FixedSize(1), 0, 0, WindowWithId(1)),
              WindowWithId(2)>>),
     Stack(<<Win([NoBox EXCEPT !.margin[1] = PercentSize(100)], DefaultSize, 1, 1,
                 WindowWithId(1)),
             WindowWithId(2)>>),
     VSplit(DefaultSize, 1, 1,
            <<Win([NoBox EXCEPT !.header = TRUE], FixedSize(2), 0, 0, WindowWithId(1)),
              Win([NoBox EXCEPT !.padding[4] = FixedSize(1)], DefaultSize, 1, 1,
                  WindowWithId(2))>>)}
CompositeAreas ==
    {[width |-> 2, height |-> 2], [width |-> 4, height |-> 3], [width |-> 6, height |-> 4]}

\* The application builds an HSplit or a VSplit of its own widgets, or one of the
\* compositions, for a canvas of some size.
InitLayout ==
    /\ \/ \E list \in SplitLists, extent \in 0..MaxExtent :
             \/ /\ widget = HSplit(DefaultSize, 1, 1, LeavesOf(list))
                /\ area = [width |-> extent, height |-> CrossExtent]
             \/ /\ widget = VSplit(DefaultSize, 1, 1, LeavesOf(list))
                /\ area = [width |-> CrossExtent, height |-> extent]
       \/ \E list \in TestLists :
             \/ /\ widget = HSplit(DefaultSize, 1, 1, LeavesOf(list))
                /\ area = [width |-> 80, height |-> 80]
             \/ /\ widget = VSplit(DefaultSize, 1, 1, LeavesOf(list))
                /\ area = [width |-> 80, height |-> 80]
       \/ /\ widget \in Composites
          /\ area \in CompositeAreas
    /\ lay = NoLayoutCall

\* No widget: the Term and the Screen are used without one.
IdleLayout ==
    /\ widget = Stack(<<>>)
    /\ area = [width |-> 0, height |-> 0]
    /\ lay = NoLayoutCall

\* Term::draw(&widget), on a canvas of the size of area; sizes are the target sizes
\* an HSplit or VSplit worked out for its splits.
LayoutDraw ==
    /\ lay = NoLayoutCall
    /\ LET r == Draw(widget, Rectangle(0, 0, area.width, area.height))
       IN  lay' = [op |-> "draw", ok |-> r.ok, leaves |-> r.leaves,
                   sizes |-> CASE widget.kind = "hsplit" ->
                                     RetrieveSplitInfo(widget.kids, 1, area.width)
                               [] widget.kind = "vsplit" ->
                                     RetrieveSplitInfo(widget.kids, 2, area.height)
                               [] OTHER -> <<>>]
    /\ UNCHANGED <<widget, area, termVars, screenVars, clickVars, regionVars, decodeVars>>

\* widget.on_event(event, rect) for a rect of the size of area.
LayoutOnEvent(event, top, left) ==
    /\ lay = NoLayoutCall
    /\ LET rect == Rectangle(top, left, area.width, area.height)
       IN  lay' = [op |-> "on_event", event |-> event, rect |-> rect,
                   msgs |-> OnEvent(widget, event, rect),
                   called |-> IF widget.kind = "stack"
                              THEN StackCalled(widget.kids, event, rect,
                                               Len(widget.kids))
                              ELSE <<>>,
                   sub_rects |-> SubRects(widget, rect)]
    /\ UNCHANGED <<widget, area, termVars, screenVars, clickVars, regionVars, decodeVars>>

\* The position along the axis an HSplit or VSplit divides, and across it.
PointAt(along, cross) ==
    IF widget.kind = "vsplit" THEN <<along, cross>> ELSE <<cross, along>>

NextLayout ==
    \/ LayoutDraw
    \/ \E along \in 0..(MaxExtent + 1), cross \in 0..CrossExtent, origin \in 0..1 :
          LayoutOnEvent(EventOf("MousePress", PointAt(along, cross)[1],
                                PointAt(along, cross)[2]), origin, origin)
    \/ \E origin \in 0..1 : LayoutOnEvent(EventOf("Char", 0, 0), origin, origin)

\* --------------------------------------------- KeyBoard: wheels and clicks
KEY_WAIT == 10
DOUBLE_CLICK_DURATION == 300

\* Keys: k is the variant; button, row, col and count are the fields it carries.
KeyOf(k, button, row, col, count) ==
    [k |-> k, button |-> button, row |-> row, col |-> col, count |-> count]
MousePress(button, row, col) == KeyOf("MousePress", button, row, col, 0)
KeyNull == KeyOf("Null", "None", 0, 0, 0)
NoKey == [key |-> KeyNull, at |-> 0, from |-> 0]

\* The raw keys the terminal sends, and the time between one and the next.
RawKeys ==
    {MousePress("Left", 0, 0), MousePress("Left", 0, 1), MousePress("Right", 0, 0),
     MousePress("WheelUp", 0, 0), MousePress("WheelDown", 0, 0)}
Gaps == {5, 150, 300}

IsWheelPress(key) == key.k = "MousePress" /\ key.button \in {"WheelUp", "WheelDown"}

\* The loop of merge_wheel: j is the last raw key counted so far, i the first. The
\* next raw key counts when try_next_raw_key gets it within KEY_WAIT and it is the
\* same press.
RECURSIVE WheelEnd(_, _)
WheelEnd(i, j) ==
    IF /\ j + 1 <= Len(typed)
       /\ typed[j + 1].at - typed[j].at < KEY_WAIT
       /\ typed[j + 1].key = typed[i].key
    THEN WheelEnd(i, j + 1)
    ELSE j

\* try_next_raw_key after raw key j got a key in time.
KeyInTime(j) == j + 1 <= Len(typed) /\ typed[j + 1].at - typed[j].at < KEY_WAIT

\* A merge_wheel that hands back the key that ended the run first and saves the
\* wheel key for the next call.
MergeWheelSwapped(i) ==
    IF IsWheelPress(typed[i].key)
    THEN LET e == WheelEnd(i, i)
             key == KeyOf(typed[i].key.button, "None", typed[i].key.row,
                          typed[i].key.col, e - i + 1)
         IN  IF KeyInTime(e)
             THEN [key |-> typed[e + 1].key, upto |-> e + 1,
                   saved |-> [key |-> key, at |-> typed[i].at, from |-> i]]
             ELSE [key |-> key, upto |-> e, saved |-> NoKey]
    ELSE [key |-> typed[i].key, upto |-> i, saved |-> NoKey]

\* merge_wheel(typed[i]): the key, the last raw key read and the key saved.
MergeWheel(i) ==
    IF IsWheelPress(typed[i].key)
    THEN LET e == WheelEnd(i, i)
             key == KeyOf(typed[i].key.button, "None", typed[i].key.row,
                          typed[i].key.col, e - i + 1)
         IN  IF KeyInTime(e)
             THEN [key |-> key, upto |-> e + 1,
                   saved |-> [key |-> typed[e + 1].key, at |-> typed[e + 1].at,
                              from |-> e + 1]]
             ELSE [key |-> key, upto |-> e, saved |-> NoKey]
    ELSE [key |-> typed[i].key, upto |-> i, saved |-> NoKey]

\* What merge_wheel(typed[i]) does is settled: its loop has a key to stop on, or
\* KEY_WAIT has gone by since the last key.
WheelSettled(i) ==
    \/ ~IsWheelPress(typed[i].key)
    \/ WheelEnd(i, i) < Len(typed)
    \/ clock - typed[Len(typed)].at >= KEY_WAIT

\* The terminal sends a raw key, gap ms after now.
Press(key, gap) ==
    /\ Len(typed) < MaxPresses
    /\ clock' = clock + gap
    /\ typed' = Append(typed, [key |-> key, at |-> clock + gap])
    /\ UNCHANGED <<kb, returned, termVars, screenVars, layoutVars, regionVars, decodeVars>>

\* KEY_WAIT goes by after a wheel press with no key from the terminal.
Idle ==
    /\ typed # <<>>
    /\ IsWheelPress(typed[Len(typed)].key)
    /\ clock - typed[Len(typed)].at < KEY_WAIT
    /\ clock' = clock + KEY_WAIT
    /\ UNCHANGED <<typed, kb, returned, termVars, screenVars, layoutVars, regionVars, decodeVars>>

\* A click synthesis that takes a press DOUBLE_CLICK_DURATION after the last for
\* a double click.
IsDoubleClickLate(key, now) ==
    key = kb.last_click /\ now - kb.last_click_time <= DOUBLE_CLICK_DURATION

\* The test of next_key_timeout for a double click, on a press handled at now.
IsDoubleClick(key, now) ==
    key = kb.last_click /\ now - kb.last_click_time < DOUBLE_CLICK_DURATION

\* KeyBoard::next_key_timeout, by a caller that waits for the key: the key is
\* handled at the time it came.
NextKeyTimeout ==
    LET saved == kb.next_key # NoKey
        i == kb.taken + 1
    IN  /\ saved \/ (i <= Len(typed) /\ (kb.raw_mouse \/ WheelSettled(i)))
        /\ LET raw == IF saved THEN kb.next_key
                      ELSE [key |-> typed[i].key, at |-> typed[i].at, from |-> i]
               merged == IF saved THEN [key |-> raw.key, upto |-> kb.taken, saved |-> NoKey]
                         ELSE IF kb.raw_mouse
                              THEN [key |-> raw.key, upto |-> i, saved |-> NoKey]
                              ELSE MergeWheel(i)
               key == merged.key
               double == IsDoubleClick(key, raw.at)
           IN  IF kb.raw_mouse
               THEN /\ kb' = [kb EXCEPT !.taken = merged.upto]
                    /\ returned' = Append(returned, [key |-> key, from |-> i, at |-> raw.at])
               ELSE IF key.k = "MousePress"
               THEN /\ kb' = [kb EXCEPT !.taken = merged.upto,
                                        !.next_key = merged.saved,
                                        !.last_click = IF double THEN @ ELSE key,
                                        !.last_click_time = raw.at]
                    /\ returned' =
                          Append(returned,
                                 [key |-> KeyOf(IF double THEN "DoubleClick"
                                                ELSE "SingleClick",
                                                key.button, key.row, key.col, 0),
                                  from |-> raw.from, at |-> raw.at])
               ELSE /\ kb' = [kb EXCEPT !.taken = merged.upto, !.next_key = merged.saved]
                    /\ returned' = Append(returned,
                                          [key |-> key, from |-> raw.from, at |-> raw.at])
        /\ UNCHANGED <<typed, clock, termVars, screenVars, layoutVars,
                       regionVars, decodeVars>>

\* KeyBoard::new, and raw_mouse(bool).
InitKeys ==
    /\ typed = <<>>
    /\ clock = 0
    /\ kb \in [raw_mouse : BOOLEAN, next_key : {NoKey}, last_click : {KeyNull},
               last_click_time : {0}, taken : {0}]
    /\ returned = <<>>

\* No KeyBoard: the Term, the Screen and the widgets are used without one.
IdleKeys ==
    /\ typed = <<>>
    /\ clock = 0
    /\ kb = [raw_mouse |-> FALSE, next_key |-> NoKey, last_click |-> KeyNull,
             last_click_time |-> 0, taken |-> 0]
    /\ returned = <<>>

NextKeys ==
    \/ \E key \in RawKeys, gap \in Gaps : Press(key, gap)
    \/ Idle
    \/ NextKeyTimeout

\* ------------------------------------- TermLock: the region of the terminal
MaxRows == 3
MaxLockOps == 4
Columns == 1
MIN_HEIGHT == 1

\* TermHeight.
Fixed(h) == [t |-> "Fixed", v |-> h]
Percent(p) == [t |-> "Percent", v |-> p]

\* What goes to the Output: a terminfo capability, cursor_goto(row, 0), or the
\* text "\n".
Cap(name) == [cap |-> name, row |-> 0]
Goto(row) == [cap |-> "cup", row |-> row]
Newline == [cap |-> "\\n", row |-> 0]

\* TermLock::default.
TermLockDefault ==
    [prefer_height |-> Percent(100), max_height |-> Percent(100),
     min_height |-> Fixed(3), bottom_intact |-> FALSE, clear_on_exit |-> TRUE,
     clear_on_start |-> TRUE, mouse_enabled |-> FALSE, alternate_screen |-> FALSE,
     disable_alternate_screen |-> FALSE, cursor_row |-> 0, screen_height |-> 0,
     screen |-> NewScreen(0, 0), output |-> FALSE]

\* TermLock::with_options.
WithOptions(options) ==
    [TermLockDefault EXCEPT !.prefer_height = options.height,
                            !.max_height = options.max_height,
                            !.min_height = options.min_height,
                            !.clear_on_exit = options.clear_on_exit,
                            !.clear_on_start = options.clear_on_start,
                            !.disable_alternate_screen = options.disable_alternate_screen,
                            !.mouse_enabled = options.mouse_enabled,
                            !.screen.clear_on_start = options.clear_on_start]

\* TermLock::calc_height.
CalcHeight(height_spec, actual_height) ==
    IF height_spec.t = "Fixed" THEN height_spec.v
    ELSE (actual_height * Min(height_spec.v, 100)) \div 100

\* TermLock::calc_preferred_height.
CalcPreferredHeight(min_height, max_height, prefer_height, height) ==
    LET maxh == Max(Min(CalcHeight(max_height, height), height), MIN_HEIGHT)
        minh == Max(Min(CalcHeight(min_height, height), height), MIN_HEIGHT)
    IN  Max(Min(CalcHeight(prefer_height, height), maxh), minh)

\* TermLock::ensure_height on a terminal of screen_height rows: the TermLock
\* afterwards and what was written.
EnsureHeight(t, cursor_pos, screen_height) ==
    LET height_to_be == CalcPreferredHeight(t.min_height, t.max_height,
                                            t.prefer_height, screen_height)
    IN  IF height_to_be >= screen_height
        THEN [tl |-> [t EXCEPT !.alternate_screen = TRUE,
                               !.bottom_intact = FALSE,
                               !.cursor_row = 0,
                               !.screen_height = screen_height],
              out |-> (IF ~t.disable_alternate_screen THEN <<Cap("smcup")>> ELSE <<>>)
                      \o <<Goto(0)>>]
        ELSE LET newline == cursor_pos[2] > 0
                 cursor_row == IF newline THEN cursor_pos[1] + 1 ELSE cursor_pos[1]
                 fits == cursor_row + height_to_be <= screen_height
                 row == IF fits THEN cursor_row
                        ELSE Min(cursor_row, screen_height - height_to_be)
             IN  [tl |-> [t EXCEPT !.alternate_screen = FALSE,
                                   !.bottom_intact = ~fits,
                                   !.cursor_row = row,
                                   !.screen_height = screen_height],
                  out |-> (IF newline THEN <<Newline>> ELSE <<>>)
                          \o (IF fits THEN <<>>
                              ELSE [i \in 1..(height_to_be - 1) |-> Newline])
                          \o <<Goto(row)>>]

\* TermLock::on_resize on a terminal of screen_height rows.
OnResize(t, screen_height) ==
    IF ~t.output THEN [tl |-> t, out |-> <<>>, err |-> TRUE]
    ELSE LET height == CalcPreferredHeight(t.min_height, t.max_height,
                                           t.prefer_height, screen_height)
             intact == t.bottom_intact \/ t.cursor_row + height >= screen_height
             row == IF intact THEN screen_height - height ELSE t.cursor_row
         IN  [tl |-> [t EXCEPT !.screen_height = screen_height,
                               !.bottom_intact = intact,
                               !.cursor_row = row,
                               !.screen = Resize(t.screen, Columns, height)],
              out |-> <<Goto(row)>>
                      \o (IF t.clear_on_start THEN <<Cap("ed")>> ELSE <<>>),
              err |-> FALSE]

\* TermLock::restart.
LockRestart(t, cursor_pos, screen_height) ==
    LET e == EnsureHeight([t EXCEPT !.output = TRUE], cursor_pos, screen_height)
        r == OnResize(e.tl, screen_height)
    IN  [tl |-> r.tl,
         out |-> e.out \o r.out
                 \o (IF t.mouse_enabled THEN <<Cap("mouse_on")>> ELSE <<>>)]

\* TermLock::pause: nothing without an Output (disable_mouse fails first).
LockPause(t, exit) ==
    IF ~t.output THEN [tl |-> t, out |-> <<>>]
    ELSE [tl |-> [t EXCEPT !.output = FALSE],
          out |-> <<Cap("mouse_off"), Cap("cnorm")>>
                  \o (IF t.clear_on_exit \/ ~exit
                      THEN IF ~t.disable_alternate_screen THEN <<Cap("rmcup")>>
                           ELSE <<Goto(t.cursor_row), Cap("ed")>>
                      ELSE <<Goto(t.cursor_row + t.screen.height)>>
                           \o (IF t.bottom_intact THEN <<Newline>> ELSE <<>>))]

\* TermLock::present: cursor_row is added to the row of every CursorGoto of the
\* Screen's command list, and the commands go to the Output.
LockPresentRegion(t) ==
    IF ~t.output THEN [tl |-> t, out |-> <<>>]
    ELSE LET p == Present(t.screen)
         IN  [tl |-> [t EXCEPT !.screen = p.scr],
              out |-> [i \in 1..Len(p.cmds) |->
                          IF p.cmds[i].c = "CursorGoto"
                          THEN Goto(p.cmds[i].row + t.cursor_row)
                          ELSE Cap(p.cmds[i].c)]]

\* The keys whose row filter_event adjusts, and what it returns in place of one
\* above the region.
FilteredKinds == {"MousePress", "MouseRelease", "MouseHold", "SingleClick",
                  "DoubleClick", "WheelUp", "WheelDown"}
Nonexhaustive == KeyOf("__Nonexhaustive", "None", 0, 0, 0)

\* A filter_event that adjusts MousePress alone.
FilterEventPressOnly(key, cursor_row) ==
    IF key.k = "MousePress"
    THEN IF key.row < cursor_row THEN Nonexhaustive
         ELSE [key EXCEPT !.row = key.row - cursor_row]
    ELSE key

\* Term::filter_event on Event::Key(key), cursor_row being get_term_start_row().
FilterEvent(key, cursor_row) ==
    IF key.k \in FilteredKinds
    THEN IF key.row < cursor_row THEN Nonexhaustive
         ELSE [key EXCEPT !.row = key.row - cursor_row]
    ELSE key

HasCap(out, name) == \E i \in 1..Len(out) : out[i].cap = name

\* The options a Term is made with.
TermOptionSets ==
    [height : {Percent(100), Percent(50), Fixed(2)},
     max_height : {Percent(100)},
     min_height : {Fixed(3), Fixed(1)},
     clear_on_exit : BOOLEAN,
     clear_on_start : BOOLEAN,
     disable_alternate_screen : BOOLEAN,
     mouse_enabled : {FALSE}]

NoLockCall == [op |-> "none"]

\* Term::restart's call of TermLock::restart, on a terminal of screen_height rows
\* whose cursor is at cursor_pos.
RegionRestart(cursor_pos, screen_height) ==
    /\ lockOps < MaxLockOps
    /\ ~tl.output
    /\ LET r == LockRestart(tl, cursor_pos, screen_height)
       IN  /\ tl' = r.tl
           /\ written' = r.out
           /\ entered' = HasCap(r.out, "smcup")
    /\ lockLast' = [op |-> "restart", cursor_pos |-> cursor_pos,
                    screen_height |-> screen_height]
    /\ lockOps' = lockOps + 1
    /\ UNCHANGED <<buffer, termVars, screenVars, layoutVars, clickVars, decodeVars>>

\* filter_event's call of on_resize, the terminal now having screen_height rows.
RegionResize(screen_height) ==
    /\ lockOps < MaxLockOps
    /\ LET r == OnResize(tl, screen_height)
       IN  /\ tl' = r.tl
           /\ written' = r.out
    /\ lockLast' = [op |-> "on_resize", screen_height |-> screen_height]
    /\ lockOps' = lockOps + 1
    /\ UNCHANGED <<entered, buffer, termVars, screenVars, layoutVars, clickVars, decodeVars>>

\* Term::pause's, or the drop's, call of TermLock::pause.
RegionPause(exit) ==
    /\ lockOps < MaxLockOps
    /\ LET r == LockPause(tl, exit)
       IN  /\ tl' = r.tl
           /\ written' = r.out
    /\ lockLast' = [op |-> "pause", exiting |-> exit]
    /\ lockOps' = lockOps + 1
    /\ UNCHANGED <<entered, buffer, termVars, screenVars, layoutVars, clickVars, decodeVars>>

\* Term::set_cursor on a running Term: TermLock::set_cursor, which is the Screen's.
RegionSetCursor(row, col) ==
    /\ lockOps < MaxLockOps
    /\ tl.output
    /\ tl' = [tl EXCEPT !.screen = SetCursor(tl.screen, row, col)]
    /\ written' = <<>>
    /\ lockLast' = [op |-> "set_cursor", row |-> row, col |-> col]
    /\ lockOps' = lockOps + 1
    /\ UNCHANGED <<entered, buffer, termVars, screenVars, layoutVars, clickVars, decodeVars>>

\* Term::present on a running Term.
RegionPresent ==
    /\ lockOps < MaxLockOps
    /\ tl.output
    /\ LET r == LockPresentRegion(tl)
       IN  /\ tl' = r.tl
           /\ written' = r.out
    /\ lockLast' = [op |-> "present"]
    /\ lockOps' = lockOps + 1
    /\ UNCHANGED <<entered, buffer, termVars, screenVars, layoutVars, clickVars, decodeVars>>

\* poll_event's call of filter_event on a key taken from the channel.
RegionFilter(key) ==
    /\ lockOps < MaxLockOps
    /\ lockLast' = [op |-> "filter_event", key |-> key,
                    result |-> FilterEvent(key, tl.cursor_row)]
    /\ written' = <<>>
    /\ lockOps' = lockOps + 1
    /\ UNCHANGED <<tl, entered, buffer, termVars, screenVars, layoutVars, clickVars, decodeVars>>

\* The keys in the channel: every kind with a position, and one without.
ChannelKeys ==
    {KeyOf(k, "Left", row, 1, 2) : k \in FilteredKinds \cup {"Char"}, row \in 0..MaxRows}

\* -------------------------------------------------------------------- Output
MaxBuffer == 4
Chars == {"ESC", "0", "x", "1", "b"}

\* str::replace("0x1b", "?"): the four characters 0 x 1 b, wherever they stand in
\* the text, become one question mark.
RECURSIVE Replace0x1b(_)
Replace0x1b(data) ==
    IF data = <<>> THEN <<>>
    ELSE IF Len(data) >= 4 /\ SubSeq(data, 1, 4) = <<"0", "x", "1", "b">>
    THEN <<"?">> \o Replace0x1b(SubSeq(data, 5, Len(data)))
    ELSE <<Head(data)>> \o Replace0x1b(Tail(data))

\* Output::write: what is put at the end of the buffer.
Write(data) == Replace0x1b(data)

\* The texts of one to n characters.
RECURSIVE Texts(_)
Texts(n) ==
    IF n = 0 THEN {}
    ELSE LET shorter == Texts(n - 1)
         IN  {<<ch>> : ch \in Chars} \cup shorter
                 \cup {Append(text, ch) : text \in shorter, ch \in Chars}

OutWrite(data) ==
    /\ Len(buffer) + Len(data) <= MaxBuffer
    /\ buffer' = buffer \o Write(data)
    /\ UNCHANGED <<tl, written, lockLast, entered, lockOps, termVars, screenVars,
                   layoutVars, clickVars, decodeVars>>

\* Output::execute(Command::PutChar(c)): self.write(c.to_string().as_str()).
OutExecutePutChar(ch) ==
    /\ Len(buffer) + 1 <= MaxBuffer
    /\ buffer' = buffer \o Write(<<ch>>)
    /\ UNCHANGED <<tl, written, lockLast, entered, lockOps, termVars, screenVars,
                   layoutVars, clickVars, decodeVars>>

\* Output::flush: the buffer goes to the terminal as it is.
OutFlush ==
    /\ buffer # <<>>
    /\ buffer' = <<>>
    /\ UNCHANGED <<tl, written, lockLast, entered, lockOps, termVars, screenVars,
                   layoutVars, clickVars, decodeVars>>

\* TermLock::with_options, before the first restart.
InitRegion ==
    /\ tl \in {WithOptions(options) : options \in TermOptionSets}
    /\ written = <<>>
    /\ lockLast = NoLockCall
    /\ entered = FALSE
    /\ lockOps = 0
    /\ buffer = <<>>

\* A TermLock nothing is asked of.
IdleRegion ==
    /\ tl = TermLockDefault
    /\ written = <<>>
    /\ lockLast = NoLockCall
    /\ entered = FALSE
    /\ lockOps = 0
    /\ buffer = <<>>

NextRegion ==
    \/ \E screen_height \in 1..MaxRows, row \in 0..(MaxRows - 1), col \in {0, 1} :
          row < screen_height /\ RegionRestart(<<row, col>>, screen_height)
    \/ \E screen_height \in 1..MaxRows : RegionResize(screen_height)
    \/ \E exit \in BOOLEAN : RegionPause(exit)
    \/ \E row \in 0..(MaxRows - 1) : RegionSetCursor(row, 0)
    \/ RegionPresent

\* The region is set by restart and on_resize; events are filtered against it.
NextFilter ==
    \/ \E screen_height \in 1..MaxRows, row \in 0..(MaxRows - 1), col \in {0, 1} :
          row < screen_height /\ RegionRestart(<<row, col>>, screen_height)
    \/ \E screen_height \in 1..MaxRows : RegionResize(screen_height)
    \/ \E key \in ChannelKeys : RegionFilter(key)

NextOutput ==
    \/ \E data \in Texts(MaxBuffer) : OutWrite(data)
    \/ \E ch \in Chars : OutExecutePutChar(ch)
    \/ OutFlush

\* ------------------------------------------- KeyBoard: the decoding of bytes
\* The bytes the decoder tells apart, by the character that stands for each.
ByteOf(c) ==
    CASE c = "ESC" -> 27 [] c = " " -> 32 [] c = "!" -> 33 [] c = "+" -> 43 [] c = "0" -> 48
      [] c = "1" -> 49 [] c = "2" -> 50 [] c = "3" -> 51 [] c = "4" -> 52
      [] c = "5" -> 53 [] c = "6" -> 54 [] c = "7" -> 55 [] c = "8" -> 56
      [] c = "9" -> 57 [] c = ";" -> 59 [] c = "<" -> 60 [] c = "A" -> 65
      [] c = "B" -> 66 [] c = "C" -> 67 [] c = "D" -> 68 [] c = "E" -> 69
      [] c = "F" -> 70 [] c = "H" -> 72 [] c = "M" -> 77 [] c = "O" -> 79
      [] c = "P" -> 80 [] c = "Q" -> 81 [] c = "R" -> 82 [] c = "S" -> 83
      [] c = "Z" -> 90 [] c = "[" -> 91 [] c = "a" -> 97 [] c = "b" -> 98
      [] c = "c" -> 99 [] c = "d" -> 100 [] c = "m" -> 109 [] c = "~" -> 126
      [] c = "DEL" -> 127
Bytes(cs) == [i \in 1..Len(cs) |-> ByteOf(cs[i])]
IsDigit(b) == b >= ByteOf("0") /\ b <= ByteOf("9")

\* Keys without fields, keys that carry a char (kept where a wheel key keeps its
\* count), F(n), and the keys that carry a position.
Plain(k) == KeyOf(k, "None", 0, 0, 0)
CharKey(k, ch) == KeyOf(k, "None", 0, 0, ch)
F(n) == KeyOf("F", "None", 0, 0, n)
CursorPos(row, col) == KeyOf("CursorPos", "None", row, col, 0)
MouseRelease(row, col) == KeyOf("MouseRelease", "None", row, col, 0)
MouseHold(row, col) == KeyOf("MouseHold", "None", row, col, 0)

\* Result<Key>, and a panic of the thread that decodes.
Ok(key) == [t |-> "Ok", key |-> key, e |-> "none"]
Err(e) == [t |-> "Err", key |-> KeyNull, e |-> e]
Panic(e) == [t |-> "Panic", key |-> KeyNull, e |-> e]

\* A KeyBoard after a call, and what the call returned.
Ret(k, r) == [kb |-> k, r |-> r]

\* read_unread_bytes: every byte that can be read goes to the end of byte_buf.
ReadUnreadBytes(k) == [byte_buf |-> k.byte_buf \o k.file, file |-> <<>>]

\* The KeyBoard once byte_buf is not empty: fetch_bytes(KEY_WAIT) when it is empty.
\* No byte comes during the wait, so the wait times out when none can be read.
Fetched(k) == IF k.byte_buf = <<>> THEN ReadUnreadBytes(k) ELSE k

\* next_byte_timeout(KEY_WAIT).
NextByteTimeout(k) ==
    LET f == Fetched(k)
    IN  IF f.byte_buf = <<>> THEN [ok |-> FALSE, kb |-> k, v |-> 0]
        ELSE [ok |-> TRUE, kb |-> [f EXCEPT !.byte_buf = Tail(@)], v |-> Head(f.byte_buf)]

\* UTF-8: the length of the sequence a byte starts (0 for a byte that starts
\* none), the bytes that continue one, and the scalar value of a sequence.
CharLen(b) ==
    IF b < 128 THEN 1
    ELSE IF b >= 194 /\ b <= 223 THEN 2
    ELSE IF b >= 224 /\ b <= 239 THEN 3
    ELSE IF b >= 240 /\ b <= 244 THEN 4
    ELSE 0
IsContinuation(b) == b >= 128 /\ b <= 191
StartsWithChar(bytes) ==
    LET n == CharLen(bytes[1])
    IN  n > 0 /\ Len(bytes) >= n /\ \A i \in 2..n : IsContinuation(bytes[i])
ScalarValue(bytes) ==
    CASE Len(bytes) = 1 -> bytes[1]
      [] Len(bytes) = 2 -> (bytes[1] - 192) * 64 + (bytes[2] - 128)
      [] Len(bytes) = 3 -> (bytes[1] - 224) * 4096 + (bytes[2] - 128) * 64
                           + (bytes[3] - 128)
      [] OTHER -> (bytes[1] - 240) * 262144 + (bytes[2] - 128) * 4096
                  + (bytes[3] - 128) * 64 + (bytes[4] - 128)

\* next_char_timeout(KEY_WAIT): byte_buf is taken out and String::from_utf8 is
\* tried on all of it; whether or not that succeeds, the first char of the valid
\* part is returned and the bytes after it are put back. With no valid char at
\* the front, chars().next() is None and the expect panics, byte_buf being empty.
NextCharTimeout(k) ==
    LET f == Fetched(k)
    IN  IF f.byte_buf = <<>> THEN [t |-> "Err", kb |-> k, v |-> 0]
        ELSE IF ~StartsWithChar(f.byte_buf)
        THEN [t |-> "Panic", kb |-> [f EXCEPT !.byte_buf = <<>>], v |-> 0]
        ELSE LET n == CharLen(f.byte_buf[1])
             IN  [t |-> "Ok",
                  kb |-> [f EXCEPT !.byte_buf = SubSeq(@, n + 1, Len(@))],
                  v |-> ScalarValue(SubSeq(f.byte_buf, 1, n))]

\* String::from_utf8 succeeds.
RECURSIVE ValidUtf8(_)
ValidUtf8(bytes) ==
    IF bytes = <<>> THEN TRUE
    ELSE IF ~StartsWithChar(bytes) THEN FALSE
    ELSE ValidUtf8(SubSeq(bytes, CharLen(bytes[1]) + 1, Len(bytes)))

\* str::parse::<u16> and ::<u8>: the number, or -1 for the Err; limit is the
\* largest value of the type. A sign "+" in front is accepted.
RECURSIVE DigitsValue(_, _)
DigitsValue(bytes, acc) ==
    IF bytes = <<>> THEN acc
    ELSE DigitsValue(Tail(bytes), acc * 10 + (Head(bytes) - ByteOf("0")))
Parse(bytes, limit) ==
    LET digits == IF bytes # <<>> /\ Head(bytes) = ByteOf("+") THEN Tail(bytes)
                  ELSE bytes
    IN  IF digits = <<>> \/ \E i \in 1..Len(digits) : ~IsDigit(digits[i]) THEN -1
        ELSE IF DigitsValue(digits, 0) > limit THEN -1
        ELSE DigitsValue(digits, 0)

\* n - 1 on a u16: for n = 0 a build with overflow checks panics (-1 here) and
\* one without wraps around.
MinusOne(n, checks) == IF n > 0 THEN n - 1 ELSE IF checks THEN -1 ELSE 65535

\* Iterator::position: the index, from 0, of the first b in bytes, or -1.
PositionOf(bytes, b) ==
    IF \E i \in 1..Len(bytes) : bytes[i] = b
    THEN (CHOOSE i \in 1..Len(bytes) :
             bytes[i] = b /\ \A j \in 1..(i - 1) : bytes[j] # b) - 1
    ELSE -1

\* str::split(';'): the pieces between the semicolons.
RECURSIVE Split(_)
Split(bytes) ==
    LET at == PositionOf(bytes, ByteOf(";"))
    IN  IF at = -1 THEN <<bytes>>
        ELSE <<SubSeq(bytes, 1, at)>> \o Split(SubSeq(bytes, at + 2, Len(bytes)))

\* parse_cursor_report: with a ';' and an 'R' in byte_buf, everything up to the 'R'
\* is taken out of byte_buf before it is parsed. split_off panics when its index
\* is beyond the end, which it is for an 'R' before the ';'.
ParseCursorReport(k, checks) ==
    LET f == ReadUnreadBytes(k)
        pos_semi == PositionOf(f.byte_buf, ByteOf(";"))
        pos_r == PositionOf(f.byte_buf, ByteOf("R"))
    IN  IF pos_semi = -1 \/ pos_r = -1 THEN Ret(f, Err("NoCursorReportResponse"))
        ELSE IF pos_semi + 1 > pos_r + 1 THEN Ret(f, Panic("split_off"))
        ELSE LET remain == SubSeq(f.byte_buf, pos_r + 2, Len(f.byte_buf))
                 row_str == SubSeq(f.byte_buf, 1, pos_semi)
                 col_str == SubSeq(f.byte_buf, pos_semi + 2, pos_r)
                 taken == [f EXCEPT !.byte_buf = remain]
                 row_num == Parse(row_str, 65535)
                 col_num == Parse(col_str, 65535)
             IN  IF ~ValidUtf8(row_str) \/ ~ValidUtf8(col_str)
                 THEN Ret(taken, Err("FromUtf8Error"))
                 ELSE IF row_num = -1 \/ col_num = -1
                 THEN Ret(taken, Err("ParseIntError"))
                 ELSE IF MinusOne(row_num, checks) = -1 \/ MinusOne(col_num, checks) = -1
                 THEN Ret(taken, Panic("overflow"))
                 ELSE Ret(taken, Ok(CursorPos(MinusOne(row_num, checks),
                                              MinusOne(col_num, checks))))

\* The loop of extended_escape that reads bytes up to an 'M' or a '~'.
RECURSIVE ReadBytesUntil(_, _)
ReadBytesUntil(k, str_buf) ==
    LET b == NextByteTimeout(k)
    IN  IF ~b.ok THEN [t |-> "Err", kb |-> b.kb, str_buf |-> str_buf, last |-> 0]
        ELSE IF b.v \in {ByteOf("M"), ByteOf("~")}
        THEN [t |-> "Ok", kb |-> b.kb, str_buf |-> str_buf, last |-> b.v]
        ELSE ReadBytesUntil(b.kb, Append(str_buf, b.v))

\* The loop of escape_csi that reads chars up to an 'm' or an 'M'.
RECURSIVE ReadCharsUntil(_, _)
ReadCharsUntil(k, str_buf) ==
    LET c == NextCharTimeout(k)
    IN  IF c.t # "Ok" THEN [t |-> c.t, kb |-> c.kb, str_buf |-> str_buf, last |-> 0]
        ELSE IF c.v \in {ByteOf("m"), ByteOf("M")}
        THEN [t |-> "Ok", kb |-> c.kb, str_buf |-> str_buf, last |-> c.v]
        ELSE ReadCharsUntil(c.kb, Append(str_buf, c.v))

\* cb, cx and cy of a mouse report in numbers: nums.next().unwrap().parse::<u16>()
\* .unwrap() three times, less 1 for cx and cy. ok is FALSE when one of them
\* panics.
MouseNumbers(str_buf, checks) ==
    LET nums == Split(str_buf)
        cb == Parse(nums[1], 65535)
        cx == IF Len(nums) < 2 \/ Parse(nums[2], 65535) = -1 THEN -1
              ELSE MinusOne(Parse(nums[2], 65535), checks)
        cy == IF Len(nums) < 3 \/ Parse(nums[3], 65535) = -1 THEN -1
              ELSE MinusOne(Parse(nums[3], 65535), checks)
    IN  [ok |-> cb # -1 /\ cx # -1 /\ cy # -1, cb |-> cb, cx |-> cx, cy |-> cy]

\* The keys of ESC [ 1 ; seq4 seq5.
ModifiedKey(seq4, seq5) ==
    CASE seq4 = ByteOf("5") /\ seq5 = ByteOf("A") -> Ok(Plain("CtrlUp"))
      [] seq4 = ByteOf("5") /\ seq5 = ByteOf("B") -> Ok(Plain("CtrlDown"))
      [] seq4 = ByteOf("5") /\ seq5 = ByteOf("C") -> Ok(Plain("CtrlRight"))
      [] seq4 = ByteOf("5") /\ seq5 = ByteOf("D") -> Ok(Plain("CtrlLeft"))
      [] seq4 = ByteOf("4") /\ seq5 = ByteOf("A") -> Ok(Plain("AltShiftUp"))
      [] seq4 = ByteOf("4") /\ seq5 = ByteOf("B") -> Ok(Plain("AltShiftDown"))
      [] seq4 = ByteOf("4") /\ seq5 = ByteOf("C") -> Ok(Plain("AltShiftRight"))
      [] seq4 = ByteOf("4") /\ seq5 = ByteOf("D") -> Ok(Plain("AltShiftLeft"))
      [] seq4 = ByteOf("3") /\ seq5 = ByteOf("H") -> Ok(Plain("AltHome"))
      [] seq4 = ByteOf("3") /\ seq5 = ByteOf("F") -> Ok(Plain("AltEnd"))
      [] seq4 = ByteOf("2") /\ seq5 = ByteOf("A") -> Ok(Plain("ShiftUp"))
      [] seq4 = ByteOf("2") /\ seq5 = ByteOf("B") -> Ok(Plain("ShiftDown"))
      [] seq4 = ByteOf("2") /\ seq5 = ByteOf("C") -> Ok(Plain("ShiftRight"))
      [] seq4 = ByteOf("2") /\ seq5 = ByteOf("D") -> Ok(Plain("ShiftLeft"))
      [] OTHER -> Err("UnknownSequence")

\* The arm of extended_escape for a sequence that ends with 'M': the rxvt mouse
\* report, m being its numbers.
RxvtMouse(m) ==
    IF ~m.ok THEN Panic("unwrap")
    ELSE CASE m.cb = 32 -> Ok(MousePress("Left", m.cy, m.cx))
           [] m.cb = 33 -> Ok(MousePress("Middle", m.cy, m.cx))
           [] m.cb = 34 -> Ok(MousePress("Right", m.cy, m.cx))
           [] m.cb = 35 -> Ok(MouseRelease(m.cy, m.cx))
           [] m.cb = 64 -> Ok(MouseHold(m.cy, m.cx))
           [] m.cb \in {96, 97} -> Ok(MousePress("WheelUp", m.cy, m.cx))
           [] OTHER -> Err("UnknownSequence")

\* The arm of extended_escape for a sequence that ends with '~': num is
\* str_buf.parse::<u8>(), -1 for its Err.
NumberedKey(num) ==
    IF num = -1 THEN Panic("unwrap")
    ELSE CASE num \in 11..15 -> Ok(F(num - 10))
           [] num \in 17..21 -> Ok(F(num - 11))
           [] num \in 23..24 -> Ok(F(num - 12))
           [] num = 200 -> Ok(Plain("BracketedPasteStart"))
           [] num = 201 -> Ok(Plain("BracketedPasteEnd"))
           [] OTHER -> Err("UnknownSequence")

\* extended_escape after its loop, l being what the loop read.
ExtendedNumbers(l, checks) ==
    IF l.t # "Ok" THEN Ret(l.kb, Err("Timeout"))
    ELSE IF l.last = ByteOf("M")
    THEN Ret(l.kb, RxvtMouse(MouseNumbers(l.str_buf, checks)))
    ELSE Ret(l.kb, NumberedKey(Parse(l.str_buf, 255)))

\* extended_escape: ESC [ seq2 with seq2 in '1'..'8'.
ExtendedEscape(k, seq2, checks) ==
    LET b3 == NextByteTimeout(k)
        seq3 == b3.v
    IN  IF ~b3.ok THEN Ret(b3.kb, Err("Timeout"))
        ELSE IF seq3 = ByteOf("~")
        THEN Ret(b3.kb,
                 CASE seq2 \in {ByteOf("1"), ByteOf("7")} -> Ok(Plain("Home"))
                   [] seq2 = ByteOf("2") -> Ok(Plain("Insert"))
                   [] seq2 = ByteOf("3") -> Ok(Plain("Delete"))
                   [] seq2 \in {ByteOf("4"), ByteOf("8")} -> Ok(Plain("End"))
                   [] seq2 = ByteOf("5") -> Ok(Plain("PageUp"))
                   [] seq2 = ByteOf("6") -> Ok(Plain("PageDown"))
                   [] OTHER -> Err("UnknownSequence"))
        ELSE IF IsDigit(seq3)
        THEN ExtendedNumbers(ReadBytesUntil(b3.kb, <<seq2, seq3>>), checks)
        ELSE IF seq3 = ByteOf(";")
        THEN LET b4 == NextByteTimeout(b3.kb)
                 b5 == NextByteTimeout(b4.kb)
             IN  IF ~b4.ok THEN Ret(b4.kb, Err("Timeout"))
                 ELSE IF ~IsDigit(b4.v) THEN Ret(b4.kb, Err("UnknownSequence"))
                 ELSE IF ~b5.ok THEN Ret(b5.kb, Err("Timeout"))
                 ELSE IF seq2 = ByteOf("1") THEN Ret(b5.kb, ModifiedKey(b4.v, b5.v))
                 ELSE Ret(b5.kb, Err("UnknownSequence"))
        ELSE Ret(b3.kb,
                 CASE seq2 = ByteOf("5") /\ seq3 = ByteOf("A") -> Ok(Plain("CtrlUp"))
                   [] seq2 = ByteOf("5") /\ seq3 = ByteOf("B") -> Ok(Plain("CtrlDown"))
                   [] seq2 = ByteOf("5") /\ seq3 = ByteOf("C") -> Ok(Plain("CtrlRight"))
                   [] seq2 = ByteOf("5") /\ seq3 = ByteOf("D") -> Ok(Plain("CtrlLeft"))
                   [] OTHER -> Err("UnknownSequence"))

\* The arm of escape_csi for ESC [ M: the X10 mouse report, three bytes.
X10Mouse(k, checks) ==
    LET cb == NextByteTimeout(k)
        bx == NextByteTimeout(cb.kb)
        by == NextByteTimeout(bx.kb)
        cx == MinusOne(Max(bx.v - 32, 0), checks)
        cy == MinusOne(Max(by.v - 32, 0), checks)
    IN  IF ~cb.ok THEN Ret(cb.kb, Err("Timeout"))
        ELSE IF ~bx.ok THEN Ret(bx.kb, Err("Timeout"))
        ELSE IF cx = -1 THEN Ret(bx.kb, Panic("overflow"))
        ELSE IF ~by.ok THEN Ret(by.kb, Err("Timeout"))
        ELSE IF cy = -1 THEN Ret(by.kb, Panic("overflow"))
        ELSE Ret(by.kb,
                 CASE cb.v % 4 = 0 ->
                         IF (cb.v \div 64) % 2 = 1
                         THEN Ok(MousePress("WheelUp", cy, cx))
                         ELSE Ok(MousePress("Left", cy, cx))
                   [] cb.v % 4 = 1 ->
                         IF (cb.v \div 64) % 2 = 1
                         THEN Ok(MousePress("WheelDown", cy, cx))
                         ELSE Ok(MousePress("Middle", cy, cx))
                   [] cb.v % 4 = 2 -> Ok(MousePress("Right", cy, cx))
                   [] OTHER -> Ok(MouseRelease(cy, cx)))

\* The match of the xterm mouse report on cb, m being the numbers of the report
\* and last the byte that ends it.
XtermKey(m, last) ==
    IF ~m.ok THEN Panic("unwrap")
    ELSE CASE m.cb \in {0, 1, 2, 64, 65} ->
                 IF last = ByteOf("M")
                 THEN Ok(MousePress(CASE m.cb = 0 -> "Left"
                                      [] m.cb = 1 -> "Middle"
                                      [] m.cb = 2 -> "Right"
                                      [] m.cb = 64 -> "WheelUp"
                                      [] OTHER -> "WheelDown", m.cy, m.cx))
                 ELSE Ok(MouseRelease(m.cy, m.cx))
           [] m.cb = 32 -> Ok(MouseHold(m.cy, m.cx))
           [] OTHER -> Err("UnknownSequence")

\* The xterm mouse report after its loop, l being what the loop read.
XtermNumbers(l, checks) ==
    IF l.t = "Panic" THEN Ret(l.kb, Panic("expect"))
    ELSE IF l.t = "Err" THEN Ret(l.kb, Err("Timeout"))
    ELSE Ret(l.kb, XtermKey(MouseNumbers(l.str_buf, checks), l.last))

\* The arm of escape_csi for ESC [ <: the xterm mouse report.
XtermMouse(k, checks) ==
    LET f == ReadUnreadBytes(k)
    IN  IF /\ PositionOf(f.byte_buf, ByteOf("m")) = -1
           /\ PositionOf(f.byte_buf, ByteOf("M")) = -1
        THEN Ret(f, Err("UnknownSequence"))
        ELSE XtermNumbers(ReadCharsUntil(f, <<>>), checks)

\* escape_csi once the bytes proved not to be a report of the cursor: the match on
\* the byte after ESC [.
EscapeCsiKey(k, checks) ==
    LET b2 == NextByteTimeout(k)
        seq2 == b2.v
        b3 == NextByteTimeout(b2.kb)
    IN  IF ~b2.ok THEN Ret(b2.kb, Err("Timeout"))
        ELSE IF seq2 \in {ByteOf("0"), ByteOf("9")} THEN Ret(b2.kb, Err("UnknownSequence"))
        ELSE IF seq2 >= ByteOf("1") /\ seq2 <= ByteOf("8")
        THEN ExtendedEscape(b2.kb, seq2, checks)
        ELSE IF seq2 = ByteOf("[")
        THEN IF ~b3.ok THEN Ret(b3.kb, Err("Timeout"))
             ELSE Ret(b3.kb,
                      CASE b3.v = ByteOf("A") -> Ok(F(1))
                        [] b3.v = ByteOf("B") -> Ok(F(2))
                        [] b3.v = ByteOf("C") -> Ok(F(3))
                        [] b3.v = ByteOf("D") -> Ok(F(4))
                        [] b3.v = ByteOf("E") -> Ok(F(5))
                        [] OTHER -> Err("UnknownSequence"))
        ELSE IF seq2 = ByteOf("M") THEN X10Mouse(b2.kb, checks)
        ELSE IF seq2 = ByteOf("<") THEN XtermMouse(b2.kb, checks)
        ELSE Ret(b2.kb,
                 CASE seq2 = ByteOf("A") -> Ok(Plain("Up"))
                   [] seq2 = ByteOf("B") -> Ok(Plain("Down"))
                   [] seq2 = ByteOf("C") -> Ok(Plain("Right"))
                   [] seq2 = ByteOf("D") -> Ok(Plain("Left"))
                   [] seq2 = ByteOf("H") -> Ok(Plain("Home"))
                   [] seq2 = ByteOf("F") -> Ok(Plain("End"))
                   [] seq2 = ByteOf("Z") -> Ok(Plain("BackTab"))
                   [] OTHER -> Err("UnknownSequence"))

\* escape_csi: the bytes after ESC [.
EscapeCsi(k, checks) ==
    LET cursor_pos == ParseCursorReport(k, checks)
    IN  IF cursor_pos.r.t # "Err" THEN cursor_pos
        ELSE EscapeCsiKey(cursor_pos.kb, checks)

\* escape_o: the byte after ESC O.
EscapeO(k) ==
    LET b2 == NextByteTimeout(k)
    IN  IF ~b2.ok THEN Ret(b2.kb, Err("Timeout"))
        ELSE Ret(b2.kb,
                 CASE b2.v = ByteOf("A") -> Ok(Plain("Up"))
                   [] b2.v = ByteOf("B") -> Ok(Plain("Down"))
                   [] b2.v = ByteOf("C") -> Ok(Plain("Right"))
                   [] b2.v = ByteOf("D") -> Ok(Plain("Left"))
                   [] b2.v = ByteOf("F") -> Ok(Plain("End"))
                   [] b2.v = ByteOf("H") -> Ok(Plain("Home"))
                   [] b2.v = ByteOf("P") -> Ok(F(1))
                   [] b2.v = ByteOf("Q") -> Ok(F(2))
                   [] b2.v = ByteOf("R") -> Ok(F(3))
                   [] b2.v = ByteOf("S") -> Ok(F(4))
                   [] b2.v = ByteOf("a") -> Ok(Plain("CtrlUp"))
                   [] b2.v = ByteOf("b") -> Ok(Plain("CtrlDown"))
                   [] b2.v = ByteOf("c") -> Ok(Plain("CtrlRight"))
                   [] b2.v = ByteOf("d") -> Ok(Plain("CtrlLeft"))
                   [] OTHER -> Err("UnknownSequence"))

\* The arm of parse_alt for ESC ESC [: the key escape_csi returned, with Alt.
AltCsi(csi) ==
    IF csi.r.t = "Panic" THEN csi
    ELSE IF csi.r.t = "Ok" /\ csi.r.key.k \in {"Up", "Down", "Left", "Right"}
    THEN Ret(csi.kb, Ok(Plain(IF csi.r.key.k = "Up" THEN "AltUp"
                              ELSE IF csi.r.key.k = "Down" THEN "AltDown"
                              ELSE IF csi.r.key.k = "Left" THEN "AltLeft"
                              ELSE "AltRight")))
    ELSE IF csi.r.t = "Ok" /\ csi.r.key.k = "PageUp"
    THEN Ret(csi.kb, Ok(Plain("AltPageUp")))
    ELSE IF csi.r.t = "Ok" /\ csi.r.key.k = "PageDown"
    THEN Ret(csi.kb, Ok(Plain("AltPageDown")))
    ELSE Ret(csi.kb, Err("UnknownSequence"))

\* parse_alt: the char after ESC, when it is neither '[' nor 'O'.
ParseAlt(k, ch, checks) ==
    LET b == NextByteTimeout(k)
    IN  CASE ch = ByteOf("ESC") ->
                IF ~b.ok THEN Ret(b.kb, Ok(Plain("ESC")))
                ELSE IF b.v # ByteOf("[") THEN Ret(b.kb, Err("UnknownSequence"))
                ELSE AltCsi(EscapeCsi(b.kb, checks))
          [] ch = 0 -> Ret(k, Ok(CharKey("CtrlAlt", ByteOf(" "))))
          [] ch = 9 -> Ret(k, Ok(Plain("AltTab")))
          [] ch = 13 -> Ret(k, Ok(Plain("AltEnter")))
          [] ch = 25 -> Ret(k, Ok(Plain("AltBackTab")))
          [] ch \in (1..26) \ {9, 13, 25} -> Ret(k, Ok(CharKey("CtrlAlt", ch + 96)))
          [] ch = ByteOf("DEL") -> Ret(k, Ok(Plain("AltBackspace")))
          [] OTHER -> Ret(k, Ok(CharKey("Alt", ch)))

\* escape_sequence: what follows an ESC; with nothing within KEY_WAIT the char is
\* taken to be ESC.
EscapeSequence(k, checks) ==
    LET c == NextCharTimeout(k)
        seq1 == IF c.t = "Ok" THEN c.v ELSE ByteOf("ESC")
    IN  IF c.t = "Panic" THEN Ret(c.kb, Panic("expect"))
        ELSE IF seq1 = ByteOf("[") THEN EscapeCsi(c.kb, checks)
        ELSE IF seq1 = ByteOf("O") THEN EscapeO(c.kb)
        ELSE ParseAlt(c.kb, seq1, checks)

\* next_raw_key_timeout, called with bytes to read.
NextRawKeyTimeout(k, checks) ==
    LET c == NextCharTimeout(k)
        ch == c.v
    IN  IF c.t = "Panic" THEN Ret(c.kb, Panic("expect"))
        ELSE IF c.t = "Err" THEN Ret(c.kb, Err("Timeout"))
        ELSE CASE ch = 0 -> Ret(c.kb, Ok(CharKey("Ctrl", ByteOf(" "))))
               [] ch = 9 -> Ret(c.kb, Ok(Plain("Tab")))
               [] ch = 13 -> Ret(c.kb, Ok(Plain("Enter")))
               [] ch \in (1..26) \ {9, 13} -> Ret(c.kb, Ok(CharKey("Ctrl", ch + 96)))
               [] ch = ByteOf("ESC") -> EscapeSequence(c.kb, checks)
               [] ch = ByteOf("DEL") -> Ret(c.kb, Ok(Plain("Backspace")))
               [] OTHER -> Ret(c.kb, Ok(CharKey("Char", ch)))

\* ------------------------------------------------ calls on the decoder
MaxSuffix == 3

\* The bytes the terminal sends: ESC [ and up to MaxSuffix bytes after it, ...
SuffixBytes == Bytes(<<"1", "5", ";", "A", "R", "~", "M", "<", " ">>)
Suffixes ==
    UNION {[1..n -> {SuffixBytes[i] : i \in 1..Len(SuffixBytes)}] : n \in 0..MaxSuffix}

\* ... the arrows, Home and End with a modifier, ...
ModifiedSequences ==
    {Bytes(<<"ESC", "[", "1", ";", m, x>>) :
        m \in {"2", "3", "4", "5"}, x \in {"A", "B", "C", "D", "H", "F"}}

\* ... and reports of the cursor and the mouse, function keys, keys with Alt, and
\* chars of one, two and three bytes, alone and behind or in front of other bytes.
Samples ==
    {Bytes(<<"ESC", "[", "1", "2", ";", "5", "R">>),
     Bytes(<<"ESC", "[", "0", ";", "1", "R">>),
     Bytes(<<"ESC", "[", "1", ";", "5", "A", "R">>),
     Bytes(<<"ESC", "[", "1", ";", "5", "R", "a">>),
     Bytes(<<"ESC", "[", "A", "ESC", "[", "1", ";", "5", "R">>),
     Bytes(<<"ESC", "[", "M", " ", "!", "!">>),
     Bytes(<<"ESC", "[", "M", " ", " ", "!">>),
     Bytes(<<"ESC", "[", "<", "0", ";", "1", ";", "2", "M">>),
     Bytes(<<"ESC", "[", "<", "0", ";", "0", ";", "1", "M">>),
     Bytes(<<"ESC", "[", "<", "0", ";", "1", "m">>),
     Bytes(<<"ESC", "[", "3", "2", ";", "1", ";", "1", "M">>),
     Bytes(<<"ESC", "[", "1", "5", "~">>),
     Bytes(<<"ESC", "[", "1", "5", ";", "5", "~">>),
     Bytes(<<"ESC", "[", "2", "5", "6", "~">>),
     Bytes(<<"ESC", "[", "2", "0", "0", "~">>),
     Bytes(<<"ESC", "[", "[", "A">>),
     Bytes(<<"ESC", "O", "P">>),
     Bytes(<<"ESC", "ESC", "[", "A">>),
     Bytes(<<"ESC", "a">>),
     Bytes(<<"ESC">>),
     Bytes(<<"a", "DEL">>),
     <<1>>, <<228, 184, 173>>, <<97, 228, 184, 173>>, <<228, 184, 173, 97>>,
     <<195, 169>>, <<255>>, <<97, 255>>}

Inputs ==
    {Bytes(<<"ESC", "[">>) \o s : s \in Suffixes} \cup ModifiedSequences \cup Samples

\* KeyBoard::new and raw_mouse(true): the terminal has sent the first bytes of an
\* input and sends the rest later.
InitDecode ==
    /\ \E input \in Inputs, n \in 0..MaxSuffix + 9 :
          /\ n <= Len(input)
          /\ keyboard = [byte_buf |-> <<>>, file |-> SubSeq(input, 1, n)]
          /\ later = SubSeq(input, n + 1, Len(input))
    /\ overflow_checks \in BOOLEAN
    /\ listener = "running"
    /\ decoded = <<>>

\* No KeyBoard that decodes.
IdleDecode ==
    /\ keyboard = [byte_buf |-> <<>>, file |-> <<>>]
    /\ later = <<>>
    /\ overflow_checks = FALSE
    /\ listener = "running"
    /\ decoded = <<>>

\* The rest of the input comes.
DecodeArrive ==
    /\ later # <<>>
    /\ keyboard' = [keyboard EXCEPT !.file = @ \o later]
    /\ later' = <<>>
    /\ UNCHANGED <<overflow_checks, listener, decoded, termVars, screenVars, layoutVars,
                   clickVars, regionVars>>

\* One turn of the loop of the key listener once bytes can be read: next_key().
\* A key is sent and an error is dropped, and the loop goes on; a panic ends the
\* thread.
DecodeNextKey ==
    /\ listener = "running"
    /\ keyboard.byte_buf # <<>> \/ keyboard.file # <<>>
    /\ LET d == NextRawKeyTimeout(keyboard, overflow_checks)
       IN  /\ keyboard' = d.kb
           /\ decoded' = Append(decoded, d.r)
           /\ listener' = IF d.r.t = "Panic" THEN "panicked" ELSE "running"
    /\ UNCHANGED <<later, overflow_checks, termVars, screenVars, layoutVars, clickVars,
                   regionVars>>

NextDecode == DecodeArrive \/ DecodeNextKey

\* ------------------------------------------------------------ specification
InitTerm ==
    /\ mainPc = "new"
    /\ exiting = FALSE
    /\ status = "Stopped"
    /\ lastOp = "none"
    /\ lastErr = FALSE
    /\ lockOwner = "none"
    /\ counter = 0
    /\ kbHandler = FALSE
    /\ subscribed = FALSE
    /\ sigRx = 0
    /\ sizePc = "none"
    /\ keyPc = "none"
    /\ inWheel = FALSE
    /\ savedKey = "none"
    /\ byteBuf = <<>>
    /\ sigPipe = 0
    /\ ttyIn = <<>>
    /\ lastTyped = "none"
    /\ chan = <<>>
    /\ output = FALSE
    /\ mouseEnabled = FALSE
    /\ clearOnExit = TRUE
    /\ screenWritten = FALSE
    /\ termios = "T0"
    /\ rawPrev = "T0"
    /\ appPc = "idle"
    /\ appOp = "none"
    /\ appResult = "none"
    /\ appAt = "none"
    /\ backlog = 0
    /\ awaitFirst = FALSE
    /\ restarts = 0
    /\ inputs = 0

Init == InitTerm /\ IdleScreen /\ IdleLayout /\ IdleKeys /\ IdleRegion /\ IdleDecode

Listeners ==
    \/ KeyStart \/ KeyTop \/ KeyWheelLoop \/ KeyDrain \/ KeySelect \/ KeyExit
    \/ SizeRegister \/ SizeStart \/ SizeRecv \/ SizeExit

Lifecycle ==
    \/ \E hold \in BOOLEAN, fail \in {"none", "tty", "terminfo"} : New(hold, fail)
    \/ \E fail \in {"none", "tty", "terminfo"} : Restart(fail)
    \/ RestartWait
    \/ \E exit \in BOOLEAN : Pause(exit)
    \/ PauseWait

\* The application's calls on the event channel ...
Events == Poll \/ PollFilter \/ PeekTimeout \/ Send

\* ... and its calls on the canvas.
Drawing ==
    \/ \E op \in ApiOps : ApiCheck(op)
    \/ \E arg \in BOOLEAN : ApiBody(arg)

Environment ==
    \/ \E t \in Tokens : Type(t)
    \/ Sigwinch

\* An application that reads events.
Next == Listeners \/ Lifecycle \/ Environment \/ Events

Spec == Init /\ [][Next]_vars

\* An application that draws.
NextApi == Listeners \/ Lifecycle \/ Environment \/ Drawing

SpecApi == Init /\ [][NextApi]_vars

\* The listeners and the lifecycle calls are scheduled threads: each goes on when it
\* can. Nothing is assumed of the user's typing, the signals or the application.
KeyListener == KeyStart \/ KeyTop \/ KeyWheelLoop \/ KeyDrain \/ KeySelect \/ KeyExit
SizeListener == SizeRegister \/ SizeStart \/ SizeRecv \/ SizeExit

FairSpec ==
    /\ Spec
    /\ WF_vars(KeyListener)
    /\ WF_vars(SizeListener)
    /\ WF_vars(RestartWait)
    /\ WF_vars(PauseWait)

InitOfScreen == InitTerm /\ InitScreen /\ IdleLayout /\ IdleKeys /\ IdleRegion /\ IdleDecode

SpecScreen == InitOfScreen /\ [][NextScreen]_vars

SpecCanvas == InitOfScreen /\ [][NextCanvas]_vars

InitOfLayout == InitTerm /\ IdleScreen /\ InitLayout /\ IdleKeys /\ IdleRegion /\ IdleDecode

InitOfKeys == InitTerm /\ IdleScreen /\ IdleLayout /\ InitKeys /\ IdleRegion /\ IdleDecode

SpecLayout == InitOfLayout /\ [][NextLayout]_vars

SpecKeys == InitOfKeys /\ [][NextKeys]_vars

InitOfRegion ==
    InitTerm /\ IdleScreen /\ IdleLayout /\ IdleKeys /\ InitRegion /\ IdleDecode

SpecRegion == InitOfRegion /\ [][NextRegion]_vars

SpecFilter == InitOfRegion /\ [][NextFilter]_vars

SpecOutput == Init /\ [][NextOutput]_vars

InitOfDecode ==
    InitTerm /\ IdleScreen /\ IdleLayout /\ IdleKeys /\ IdleRegion /\ InitDecode

SpecDecode == InitOfDecode /\ [][NextDecode]_vars

\* ================================================================= claims
\* pause() has returned and no later lifecycle call has.
Paused == mainPc = "idle" /\ lastOp = "pause" /\ ~lastErr

IsListenerEvent(e) == e \in {"Key", "Resize"}

\* C1: after pause() then restart(), the first event the next poll_event or
\* peek_event returns is Restarted, whatever the keyboard and SIGWINCH did
\* (events the application sent itself, and events sent before the pause, aside).
C1_FirstEventIsRestarted ==
    (awaitFirst /\ backlog = 0) => (chan # <<>> /\ ~IsListenerEvent(Head(chan)))

\* C2: when pause() has returned, both listeners have left their loops, the counter
\* of started components is 0, and until the next restart no listener puts a Key
\* or a Resize into the event channel.
C2_PausedListenersGone ==
    /\ [](Paused => /\ counter = 0
                    /\ keyPc \in {"none", "done"}
                    /\ sizePc \in {"none", "done"})
    /\ [][Paused => \/ chan' = chan
                    \/ chan # <<>> /\ chan' = Tail(chan)
                    \/ chan' = Append(chan, "User")]_vars

C2_Witness ==
    /\ Paused
    /\ status = "Stopped"
    /\ keyPc = "done"
    /\ sizePc = "done"
    /\ \E i \in 1..Len(chan) : chan[i] = "Key"

\* C3: every pause() on a running terminal eventually returns, wherever the key
\* listener is when the interrupt is written.
C3_PauseReturns == (mainPc = "p_wait") ~> (mainPc \in {"idle", "dropped"})

\* C4: a canvas call that begins while the controller is Stopped returns
\* TerminalNotStarted; one that begins and ends while it is Running succeeds.
C4_StoppedCallsFail ==
    (appPc = "idle" /\ appOp \in ApiOps) =>
        /\ appAt = "Stopped" => appResult = "TerminalNotStarted"
        /\ appAt = "Running" => appResult = "Ok"

C4_Witness ==
    /\ Paused
    /\ restarts > 0
    /\ appPc = "idle"
    /\ appOp = "present"
    /\ appAt = "Stopped"
    /\ appResult = "TerminalNotStarted"

\* C5: once pause() or the drop of a Term that has run has returned, the TTY's
\* termios settings are the ones it had before the Term was made.
C5_TermiosRestored ==
    (mainPc \in {"idle", "dropped"} /\ lastOp \in {"pause", "drop"} /\ restarts > 0)
        => termios = "T0"

\* C6: a poll_event that begins while the controller is Stopped returns no event
\* but one the application sent with send_event (events sent before the pause aside).
C6_PausedPollIsSilent ==
    (appPc = "idle" /\ appOp = "poll_event" /\ appAt = "Stopped") => appResult = "User"

\* C7: a call of Term that returns an error leaves the state of the controller as
\* it was.
C7_ErrorLeavesState ==
    [][(appPc = "body" /\ appResult' = "TerminalNotStarted") =>
          UNCHANGED <<mouseEnabled, clearOnExit, screenWritten, output, counter>>]_vars

HasCommand(cmds, c) == \E i \in 1..Len(cmds) : cmds[i].c = c

\* C8 (as the code has it): a present() that directly follows a present() returns
\* no PutChar, and no EraseEndOfLine when clear_on_start is false.
C8_SecondPresentQuiet ==
    scrRun = 2 =>
        /\ ~HasCommand(scrCmds, "PutChar")
        /\ ~scr.clear_on_start => ~HasCommand(scrCmds, "EraseEndOfLine")

C8_Witness ==
    /\ scrRun = 2
    /\ scr.clear_on_start
    /\ scrOps > 0
    /\ \E i \in 1..Len(scr.cells) : scr.cells[i].ch \notin {"SP", "NUL"}

\* C8 (as the spec has it): a present() that directly follows a present() returns
\* no PutChar and no EraseEndOfLine, whatever clear_on_start is.
C8_AsClaimed ==
    scrRun = 2 =>
        /\ ~HasCommand(scrCmds, "PutChar")
        /\ ~HasCommand(scrCmds, "EraseEndOfLine")

\* "Hello" has just been printed at (0, 0) on a fresh 5 x 1 Screen and presented.
HelloPresented ==
    /\ scr.width = 5
    /\ scr.height = 1
    /\ scrOps = 1
    /\ scrRun = 1
    /\ [i \in 1..5 |-> scr.cells[i].ch] = <<"H", "e", "l", "l", "o">>

\* C9 (as the code has it): on a fresh Screen(5, 1), print_with_attr(0, 0, "Hello")
\* then present() returns CursorShow(false), CursorGoto{0,0}, ResetAttributes,
\* PutChar H, e, l, l, o, CursorGoto{0,0}: no CursorGoto before the first PutChar.
C9_HelloCommands ==
    HelloPresented =>
        scrCmds = <<CursorShow(FALSE), CursorGoto(0, 0), ResetAttributes,
                    PutChar("H"), PutChar("e"), PutChar("l"), PutChar("l"), PutChar("o"),
                    CursorGoto(0, 0)>>

C9_Witness == HelloPresented /\ Len(scrCmds) = 9

\* C9 (as the spec has it): the list has a second CursorGoto{0,0} before PutChar H.
C9_AsClaimed ==
    HelloPresented =>
        scrCmds = <<CursorShow(FALSE), CursorGoto(0, 0), ResetAttributes, CursorGoto(0, 0),
                    PutChar("H"), PutChar("e"), PutChar("l"), PutChar("l"), PutChar("o"),
                    CursorGoto(0, 0)>>

\* C10: put_cell(r, c, cell) with a character of width 2 returns 2; when (r, c+1) is
\* inside the Screen, (r, c) becomes the cell and (r, c+1) holds ' '; when it is
\* not, no cell changes.
C10_WidePutCell ==
    [][(scrOps' # scrOps /\ scrLast'.op = "put_cell" /\ scrLast'.cell.ch \in WideChars) =>
          LET r == scrLast'.row
              c == scrLast'.col
          IN  /\ scrLast'.ret = 2
              /\ IF r < scr.height /\ c + 1 < scr.width
                 THEN /\ scr'.cells[r * scr.width + c + 1] = scrLast'.cell
                      /\ scr'.cells[r * scr.width + c + 2].ch = "SP"
                 ELSE scr'.cells = scr.cells]_vars

C10_Witness ==
    /\ scrLast.op = "put_cell"
    /\ scrLast.cell.ch \in WideChars
    /\ scrLast.row < scr.height
    /\ scrLast.col = scr.width - 1
    /\ scrLast.ret = 2
    /\ \A i \in 1..Len(scr.cells) : scr.cells[i].ch # "CJK"

\* The call the step makes is a put_cell, on the Screen or through a BoundedCanvas,
\* at a position outside the canvas it is made on.
PutCellOutside ==
    \/ /\ scrLast'.op = "put_cell"
       /\ scrLast'.row >= scr.height \/ scrLast'.col >= scr.width
    \/ /\ scrLast'.op = "bounded_put_cell"
       /\ scrLast'.row >= scrLast'.b.height \/ scrLast'.col >= scrLast'.b.width

\* C11: put_cell at (r, c) with r >= h or c >= w, on a canvas of size (w, h) and
\* for every cell value, changes no cell and returns a width that is 1 or 2.
C11_OutOfRangePutCell ==
    [][PutCellOutside => /\ scr'.cells = scr.cells
                         /\ scrLast'.ret \in {1, 2}]_vars

BoundedOps == {"bounded_put_cell", "bounded_print_with_attr", "bounded_clear",
               "bounded_set_cursor"}

\* (row, col) lies in the rectangle [top, top+height) x [left, left+width).
InRect(b, row, col) ==
    /\ row >= b.top /\ row < b.top + b.height
    /\ col >= b.left /\ col < b.left + b.width

\* C12: an operation made through a BoundedCanvas changes no cell of the canvas
\* underneath outside the rectangle of the BoundedCanvas, and moves the cursor
\* nowhere but into that rectangle.
C12_BoundedStaysInside ==
    [][scrLast'.op \in BoundedOps =>
          /\ \A i \in 1..(scr.width * scr.height) :
                InRect(scrLast'.b, (i - 1) \div scr.width, (i - 1) % scr.width)
                \/ scr'.cells[i] = scr.cells[i]
          /\ \/ scr'.cursor = scr.cursor
             \/ InRect(scrLast'.b, scr'.cursor.row, scr'.cursor.col)]_vars
\* The leaves of the widget as Term::draw draws them on the canvas, with the
\* rectangle each is drawn into.
DrawnLeaves == Draw(widget, Rectangle(0, 0, area.width, area.height)).leaves

\* A mouse event at a position of the canvas was routed from the top, the widget
\* being handed the rectangle of the whole canvas.
RoutedFromTop ==
    /\ lay.op = "on_event"
    /\ lay.event.kind \in MouseKinds
    /\ lay.rect.top = 0 /\ lay.rect.left = 0
    /\ lay.event.row < area.height /\ lay.event.col < area.width

\* C13: for a mouse event at (R, C) routed through a composition of HSplit, VSplit,
\* Win and Stack, every message returned comes from a widget whose drawn rectangle
\* contains (R, C) and carries the position relative to the origin of that
\* rectangle; a message is returned when there is such a widget.
C13_RoutedToDrawnWidget ==
    RoutedFromTop =>
        LET hit == {i \in 1..Len(DrawnLeaves) :
                       Contains(DrawnLeaves[i].rect, lay.event.row, lay.event.col)}
        IN  /\ \A k \in 1..Len(lay.msgs) :
                  \E i \in hit :
                     /\ DrawnLeaves[i].id = lay.msgs[k].id
                     /\ lay.msgs[k].event =
                           EventOf(lay.event.kind,
                                   lay.event.row - DrawnLeaves[i].rect.top,
                                   lay.event.col - DrawnLeaves[i].rect.left)
            /\ hit # {} => lay.msgs # <<>>
\* The widget is an HSplit or a VSplit of widgets of the application.
SplitOfLeaves ==
    /\ widget.kind \in {"hsplit", "vsplit"}
    /\ \A i \in 1..Len(widget.kids) : widget.kids[i].kind = "leaf"

\* A mouse event was handed to a split of leaves together with the rectangle the
\* split is drawn into, at a position inside that rectangle.
ClickInContainer ==
    /\ SplitOfLeaves
    /\ lay.op = "on_event"
    /\ lay.event.kind \in MouseKinds
    /\ Contains(lay.rect, lay.event.row, lay.event.col)

\* The rectangle child i is drawn into, on the canvas the container is drawn on.
ChildRect(i) ==
    Rectangle(lay.rect.top + DrawnLeaves[i].rect.top,
              lay.rect.left + DrawnLeaves[i].rect.left,
              DrawnLeaves[i].rect.width, DrawnLeaves[i].rect.height)

\* The children whose rectangle contains the position of the last event.
ChildrenAt ==
    {i \in 1..Len(DrawnLeaves) : Contains(ChildRect(i), lay.event.row, lay.event.col)}

\* C14: for an HSplit or VSplit and a mouse event whose point lies inside the
\* container, the child whose rectangle contains the point is the one child that
\* receives the event, and the messages returned are exactly that child's messages.
C14_ChildAtPointReceives ==
    ClickInContainer =>
        \A i \in ChildrenAt :
            \E ev \in {EventOf(lay.event.kind, r, c) :
                          r \in 0..lay.event.row, c \in 0..lay.event.col} :
                lay.msgs = <<[id |-> i, event |-> ev]>>

\* An HSplit or VSplit of leaves has been drawn.
SplitDrawn == SplitOfLeaves /\ lay.op = "draw"

\* The extent of the container along the axis the split divides.
Extent == IF widget.kind = "hsplit" THEN area.width ELSE area.height

\* Where child i was drawn along that axis, and how far.
SpanStart(i) ==
    IF widget.kind = "hsplit" THEN lay.leaves[i].rect.left ELSE lay.leaves[i].rect.top
SpanSize(i) ==
    IF widget.kind = "hsplit" THEN lay.leaves[i].rect.width
    ELSE lay.leaves[i].rect.height
DrawnSizes == [i \in 1..Len(lay.leaves) |-> SpanSize(i)]

\* Splits that do not shrink and each want 60.
ThreeOfSixty ==
    /\ Len(widget.kids) = 3
    /\ \A i \in 1..3 : widget.kids[i].basis = FixedSize(60) /\ widget.kids[i].shrink = 0

\* C15: an HSplit (VSplit) drawn on a canvas of width W (height H) draws child i
\* into the span [left_i, min(left_i + target_i, W)), left_0 being 0 and left_{i+1}
\* the previous right edge; the spans do not overlap, their sum is at most W, and
\* a child that starts at the edge of the container gets extent 0: three children
\* that do not shrink and each want 60 of 80 get 60, 20 and 0.
C15_DrawnSpans ==
    SplitDrawn =>
        /\ Len(lay.leaves) = Len(widget.kids)
        /\ \A i \in 1..Len(lay.leaves) :
              /\ SpanStart(i) = IF i = 1 THEN 0 ELSE SpanStart(i - 1) + SpanSize(i - 1)
              /\ SpanStart(i) + SpanSize(i) = Min(SpanStart(i) + lay.sizes[i], Extent)
              /\ SpanStart(i) = Extent => SpanSize(i) = 0
              /\ \A j \in 1..Len(lay.leaves) :
                    i < j => SpanStart(i) + SpanSize(i) <= SpanStart(j)
        /\ SumSeq(DrawnSizes) <= Extent
        /\ (ThreeOfSixty /\ Extent = 80) => DrawnSizes = <<60, 20, 0>>

\* The three children of 60 drawn in 80.
C15_Witness == SplitDrawn /\ ThreeOfSixty /\ Extent = 80 /\ DrawnSizes = <<60, 20, 0>>
\* The sizes the splits ask for before any growing or shrinking, and the factors.
AskedSizes == SplitSizes(widget.kids, IF widget.kind = "hsplit" THEN 1 ELSE 2, Extent)
TotalGrow == SumSeq([i \in 1..Len(widget.kids) |-> widget.kids[i].grow])
TotalShrink == SumSeq([i \in 1..Len(widget.kids) |-> widget.kids[i].shrink])

\* An HSplit whose children ask for less than the width, some of them growing, has
\* been drawn without truncating any child.
GrownUntruncated ==
    /\ SplitDrawn
    /\ widget.kind = "hsplit"
    /\ SumSeq(AskedSizes) < Extent
    /\ TotalGrow > 0
    /\ DrawnSizes = lay.sizes

\* C16 as the specification states it: the rendered widths sum to exactly W.
C16_AsClaimed == GrownUntruncated => SumSeq(DrawnSizes) = Extent

\* C16: for an HSplit on width W whose children's target widths sum to less than W
\* with a total grow above 0, when no child is truncated, the rendered widths sum
\* to W less the remainder of the division of the spare width by the total grow:
\* to exactly W when the total grow divides the spare width.
C16_GrowFillsWidth ==
    GrownUntruncated =>
        SumSeq(DrawnSizes) = Extent - ((Extent - SumSeq(AskedSizes)) % TotalGrow)

\* Children that grow and leave a remainder, and the children of the test grow,
\* which fill the 80 columns.
C16_Witness ==
    /\ GrownUntruncated
    /\ \/ (Extent - SumSeq(AskedSizes)) % TotalGrow # 0
       \/ Extent = 80 /\ DrawnSizes = <<30, 50>>

\* Integer division rounding down; a division by 0 gives 0.
FloorDiv(a, b) == IF b = 0 THEN 0 ELSE a \div b

\* The size the flex rule gives split i of a container of extent S.
FlexSize(i) ==
    LET S == Extent
        sum == SumSeq(AskedSizes)
    IN  CASE sum < S -> AskedSizes[i] + widget.kids[i].grow * FloorDiv(S - sum, TotalGrow)
          [] sum > S -> AskedSizes[i]
                        - Min(AskedSizes[i],
                              widget.kids[i].shrink * FloorDiv(sum - S, TotalShrink))
          [] OTHER -> AskedSizes[i]

\* Children of 10 and 10 growing by 1 and 2.
TenAndTen ==
    /\ Len(widget.kids) = 2
    /\ \A i \in 1..2 : widget.kids[i].basis = FixedSize(10)
    /\ widget.kids[1].grow = 1
    /\ widget.kids[2].grow = 2

C17_WitnessShrink ==
    /\ SplitDrawn
    /\ SumSeq(AskedSizes) > Extent
    /\ TotalShrink > 0
    /\ lay.sizes # AskedSizes
\* The returned keys that are clicks.
IsClick(n) == returned[n].key.k \in {"SingleClick", "DoubleClick"}

\* The returned keys that come from a press of the left button.
LeftReturned ==
    {n \in 1..Len(returned) :
        /\ typed[returned[n].from].key.k = "MousePress"
        /\ typed[returned[n].from].key.button = "Left"}

\* What a press is returned as.
ClickOf(press, double) ==
    KeyOf(IF double THEN "DoubleClick" ELSE "SingleClick",
          press.button, press.row, press.col, 0)

\* The raw mouse press before raw key f, 0 when there is none.
PressBefore(f) ==
    LET before == {j \in 1..(f - 1) : typed[j].key.k = "MousePress"}
    IN  IF before = {} THEN 0 ELSE CHOOSE j \in before : \A m \in before : m <= j

\* The click returned before returned key n, 0 when there is none.
ClickBefore(n) ==
    LET before == {m \in 1..(n - 1) : IsClick(m)}
    IN  IF before = {} THEN 0 ELSE CHOOSE m \in before : \A x \in before : x <= m

\* C18 as the specification states it: the press is a double click exactly when
\* the previous mouse press was the same press less than 300 ms earlier.
C18_AsClaimed ==
    ~kb.raw_mouse =>
        \A n \in LeftReturned :
            LET f == returned[n].from
                j == PressBefore(f)
            IN  returned[n].key =
                    ClickOf(typed[f].key,
                            /\ j # 0
                            /\ typed[j].key = typed[f].key
                            /\ typed[f].at - typed[j].at < DOUBLE_CLICK_DURATION)

\* C18: with raw_mouse off, a MousePress(Left, r, c) is reported as
\* DoubleClick(Left, r, c) if the previous key reported as a SingleClick or a
\* DoubleClick came from an identical MousePress(Left, r, c) less than 300 ms
\* earlier, and as SingleClick(Left, r, c) otherwise; two identical presses 300 ms
\* or more apart both give SingleClick.
C18_DoubleAfterClick ==
    ~kb.raw_mouse =>
        \A n \in LeftReturned :
            LET f == returned[n].from
                m == ClickBefore(n)
            IN  returned[n].key =
                    ClickOf(typed[f].key,
                            /\ m # 0
                            /\ typed[returned[m].from].key = typed[f].key
                            /\ typed[f].at - typed[returned[m].from].at
                                  < DOUBLE_CLICK_DURATION)

\* A double click of the left button with a wheel key between its two presses, and
\* two identical presses 300 ms apart returned as two single clicks.
C18_Witness ==
    /\ ~kb.raw_mouse
    /\ Len(returned) = 3
    /\ returned[1].key = ClickOf(MousePress("Left", 0, 0), FALSE)
    /\ \/ /\ returned[2].key.k \in {"WheelUp", "WheelDown"}
          /\ returned[3].key = ClickOf(MousePress("Left", 0, 0), TRUE)
       \/ /\ returned[2].key = ClickOf(MousePress("Left", 0, 0), TRUE)
          /\ returned[3].key = ClickOf(MousePress("Left", 0, 0), FALSE)
          /\ returned[3].at - returned[2].at = DOUBLE_CLICK_DURATION

\* Raw keys a..b are MousePress(WheelUp, r, c) keys that came less than KEY_WAIT
\* after one another, no such key comes right before or after them, and the
\* KeyBoard has returned the keys it made of them.
WheelUpRun(a, b) ==
    /\ a <= b
    /\ \A j \in a..b : typed[j].key.k = "MousePress" /\ typed[j].key.button = "WheelUp"
    /\ \A j \in a..b : typed[j].key = typed[a].key
    /\ \A j \in (a + 1)..b : typed[j].at - typed[j - 1].at < KEY_WAIT
    /\ a > 1 => (typed[a - 1].key # typed[a].key
                 \/ typed[a].at - typed[a - 1].at >= KEY_WAIT)
    /\ IF b < Len(typed)
       THEN typed[b + 1].key # typed[a].key \/ typed[b + 1].at - typed[b].at >= KEY_WAIT
       ELSE clock - typed[b].at >= KEY_WAIT
    /\ kb.taken >= b
    /\ kb.next_key.from \notin a..b

\* C19: with raw_mouse off, N consecutive MousePress(WheelUp, r, c) keys that come
\* less than KEY_WAIT after one another, ended by a longer gap or by a different
\* key, are returned as exactly one WheelUp(r, c, N) and no other key.
C19_WheelCoalesced ==
    ~kb.raw_mouse =>
        \A a, b \in 1..Len(typed) :
            WheelUpRun(a, b) =>
                \E n \in 1..Len(returned) :
                    /\ returned[n].key =
                          KeyOf("WheelUp", "None", typed[a].key.row, typed[a].key.col,
                                b - a + 1)
                    /\ \A m \in 1..Len(returned) :
                          returned[m].from \in a..b => m = n

\* C20: DoubleClick is returned only for the left button: no input makes the
\* decoder return a DoubleClick of Middle, Right, WheelUp or WheelDown.
C20_DoubleClickLeftOnly ==
    \A n \in 1..Len(returned) :
        returned[n].key.k = "DoubleClick" => returned[n].key.button = "Left"

\* The number of raw keys a returned key is made of.
Span(r) == IF r.key.k \in {"WheelUp", "WheelDown"} THEN r.key.count ELSE 1

\* The returned key r carries the button and the position of raw key j.
MadeOf(r, j) ==
    /\ r.key.row = typed[j].key.row
    /\ r.key.col = typed[j].key.col
    /\ IF r.key.k \in {"WheelUp", "WheelDown"}
       THEN typed[j].key.button = r.key.k
       ELSE typed[j].key.button = r.key.button

\* C23: the KeyBoard returns keys in the order of the raw keys they are made of:
\* the first returned key is made of the first raw key, each returned key starts
\* at the raw key after the last one the key before it covers, wheel coalescing
\* and the saved next key included.
C23_KeysInOrder ==
    /\ returned # <<>> => returned[1].from = 1
    /\ \A n \in 1..Len(returned) :
          /\ returned[n].from \in 1..Len(typed)
          /\ \A j \in returned[n].from..(returned[n].from + Span(returned[n]) - 1) :
                j <= Len(typed) /\ MadeOf(returned[n], j)
          /\ n < Len(returned) =>
                returned[n + 1].from = returned[n].from + Span(returned[n])

\* A wheel key of two presses has been returned, and after it the key that ended
\* the run, which merge_wheel had saved.
C23_Witness ==
    /\ ~kb.raw_mouse
    /\ \E n \in 1..(Len(returned) - 1) :
          /\ returned[n].key.k \in {"WheelUp", "WheelDown"}
          /\ returned[n].key.count = 2
          /\ returned[n + 1].key.k = "SingleClick"
          /\ returned[n + 1].from = returned[n].from + 2
          /\ typed[returned[n + 1].from].at - typed[returned[n + 1].from - 1].at < KEY_WAIT

\* The wheel presses among raw keys 1..j.
RECURSIVE WheelPresses(_)
WheelPresses(j) ==
    IF j = 0 THEN 0
    ELSE WheelPresses(j - 1) + (IF IsWheelPress(typed[j].key) THEN 1 ELSE 0)

\* The counts of the WheelUp and WheelDown keys among returned keys 1..n.
RECURSIVE WheelCounts(_)
WheelCounts(n) ==
    IF n = 0 THEN 0
    ELSE WheelCounts(n - 1) + (IF returned[n].key.k \in {"WheelUp", "WheelDown"}
                               THEN returned[n].key.count ELSE 0)

\* C30: with raw_mouse off, a wheel press is returned only inside a WheelUp or
\* WheelDown key, never as a MousePress, SingleClick or DoubleClick, and the
\* counts of the wheel keys returned add up to the wheel presses they were made
\* of, a wheel press saved as the next key included.
C30_WheelOnlyInWheelKeys ==
    ~kb.raw_mouse =>
        /\ \A n \in 1..Len(returned) :
              IsWheelPress(typed[returned[n].from].key) =>
                  returned[n].key.k \in {"WheelUp", "WheelDown"}
        /\ WheelCounts(Len(returned)) =
              WheelPresses(IF kb.next_key = NoKey THEN kb.taken ELSE kb.taken - 1)

\* A terminal that runs a command list: the cursor positions the PutChar commands
\* run at, in order. CursorGoto moves the cursor, a character written moves it
\* right by the character's display width; cur is the cursor before the list.
RECURSIVE PutCharCursors(_, _)
PutCharCursors(cmds, cur) ==
    IF cmds = <<>> THEN <<>>
    ELSE LET cmd == Head(cmds)
         IN  IF cmd.c = "CursorGoto"
             THEN PutCharCursors(Tail(cmds), <<cmd.row, cmd.col>>)
             ELSE IF cmd.c = "PutChar"
             THEN <<cur>> \o PutCharCursors(Tail(cmds),
                                            <<cur[1], cur[2] + DisplayWidth(cmd.ch)>>)
             ELSE PutCharCursors(Tail(cmds), cur)

\* The characters the PutChar commands of a list write, in order.
PutChars(cmds) == SelectSeq(cmds, LAMBDA cmd : cmd.c = "PutChar")

\* C26: when the command list of present() is run on a terminal whose cursor
\* moves right by the display width of each character written, every PutChar
\* that paints cell (r, c) runs with the cursor at (r, c), whatever the cell
\* holds: a narrow, a wide, an empty or a control character.
C26_PutCharAtItsCell ==
    scrLast.op = "present" => PutCharCursors(scrCmds, <<-1, -1>>) = scrLast.at

\* C27: on a Screen of at least 1 x 1, every CursorGoto of present(), the last one
\* included, has row < height and col < width, after any calls of put_cell,
\* set_cursor, clear and resize.
C27_GotoInsideScreen ==
    (scrLast.op = "present" /\ scr.width >= 1 /\ scr.height >= 1) =>
        \A n \in 1..Len(scrCmds) :
            scrCmds[n].c = "CursorGoto" =>
                scrCmds[n].row < scr.height /\ scrCmds[n].col < scr.width

\* C28: right after present(), in every row painted_cells equals cells in the
\* columns before the trailing empty ones, and holds the empty cell in every
\* trailing empty column.
C28_PaintedAfterPresent ==
    scrLast.op = "present" =>
        \A row \in 0..(scr.height - 1) :
            LET ec == EmptyColIndex(scr.cells, scr.width, row, scr.width)
            IN  \A col \in 0..(scr.width - 1) :
                    LET i == row * scr.width + col + 1
                    IN  IF col < ec THEN scr.painted_cells[i] = scr.cells[i]
                        ELSE scr.painted_cells[i] = EmptyCell /\ IsEmpty(scr.cells[i])

\* present() has painted a row that has contents and trailing empty columns.
C28_Witness ==
    /\ scrLast.op = "present"
    /\ \E n \in 1..Len(scrLast.at) :
          LET row == scrLast.at[n][1]
              ec == EmptyColIndex(scr.cells, scr.width, row, scr.width)
          IN  0 < ec /\ ec < scr.width

\* What Screen s holds after resize(w, h) of Screen old, as C29 has it.
Resized(old, s, w, h) ==
    /\ s.width = w /\ s.height = h
    /\ Len(s.cells) = w * h
    /\ Len(s.painted_cells) = w * h
    /\ \A row \in 0..(h - 1), col \in 0..(w - 1) :
          s.cells[row * w + col + 1] =
              IF row < Min(h, old.height) /\ col < Min(w, old.width)
              THEN old.cells[row * old.width + col + 1] ELSE EmptyCell
    /\ \A i \in 1..(w * h) : s.painted_cells[i] = EmptyCell

\* The terminal cells that the characters written by a command list cover.
Covered(cmds) ==
    LET cur == PutCharCursors(cmds, <<-1, -1>>)
        chs == PutChars(cmds)
    IN  UNION {{<<cur[n][1], cur[n][2] + k>> : k \in 0..(DisplayWidth(chs[n].ch) - 1)} :
               n \in 1..Len(chs)}

\* Every cell of Screen s that is not empty is covered by a character written.
Repainted(s, cmds) ==
    \A row \in 0..(s.height - 1), col \in 0..(s.width - 1) :
        ~IsEmpty(s.cells[row * s.width + col + 1]) => <<row, col>> \in Covered(cmds)

\* C29: after resize(w', h'), cells and painted_cells have w' * h' entries, the
\* cells in the top-left intersection keep their content, every other cell is
\* empty and painted_cells is all empty; and the present() that follows repaints
\* every cell that is not empty.
C29_ResizeThenRepaint ==
    [][/\ (scrOps' # scrOps /\ scrLast'.op = "resize") =>
             Resized(scr, scr', scrLast'.w, scrLast'.h)
       /\ (scrLast.op = "resize" /\ scrLast'.op = "present") =>
             Repainted(scr', scrCmds')]_vars

\* C24: every Resize that poll_event or peek_event returns carries the width and
\* height of the Screen, which the controller has just set from the terminal's
\* size: never the (0, 0) of the listener, never a size not read again.
C24_ResizeCarriesRealSize ==
    (appPc = "idle" /\ appOp = "poll_event") =>
        appResult \notin {"ResizeZero", "ResizeStale"}

\* H, the height restart resolved for the region.
ResolvedHeight ==
    CalcPreferredHeight(tl.min_height, tl.max_height, tl.prefer_height, tl.screen_height)

\* C21: at restart, with H the resolved height of the region: if H >= screen_height
\* and disable_alternate_screen is false, the alternate screen is entered and the
\* restart ends with cursor_row = 0 and bottom_intact = false; if H < screen_height
\* the alternate screen is not entered and the region is only part of the screen.
C21_RestartRegion ==
    lockLast.op = "restart" =>
        /\ (ResolvedHeight >= tl.screen_height /\ ~tl.disable_alternate_screen) =>
              /\ HasCap(written, "smcup")
              /\ tl.cursor_row = 0
              /\ tl.bottom_intact = FALSE
        /\ ResolvedHeight < tl.screen_height =>
              /\ ~HasCap(written, "smcup")
              /\ tl.screen.height < tl.screen_height

\* C22: no text given to Output::write, a character painted through PutChar
\* included, puts the ESC character into the Output's buffer.
C22_NoEscapeWritten == \A i \in 1..Len(buffer) : buffer[i] # "ESC"

\* C25: pause writes the leave-alternate-screen sequence only if the restart
\* before it wrote the enter-alternate-screen sequence; when that restart did not
\* and clearing applies (clear_on_exit, or not exiting), pause moves to the first
\* row of the region and erases down.
C25_LeaveOnlyIfEntered ==
    (lockLast.op = "pause" /\ written # <<>>) =>
        /\ HasCap(written, "rmcup") => entered
        /\ (~entered /\ (tl.clear_on_exit \/ ~lockLast.exiting)) =>
              \E i \in 1..(Len(written) - 1) :
                  written[i] = Goto(tl.cursor_row) /\ written[i + 1] = Cap("ed")

\* The region after a restart or a Resize the controller handled.
RegionInsideTerminal ==
    (lockLast.op \in {"restart", "on_resize"} /\ tl.output) =>
        /\ 1 <= tl.screen.height
        /\ tl.screen.height <= tl.screen_height
        /\ tl.cursor_row + tl.screen.height <= tl.screen_height
        /\ tl.bottom_intact => tl.cursor_row + tl.screen.height = tl.screen_height

\* C36: after every restart and every Resize the controller handled, on a
\* terminal of at least one row: 1 <= screen.height <= terminal height,
\* cursor_row + screen.height <= terminal height, and bottom_intact implies
\* cursor_row + screen.height = terminal height; and every CursorGoto that
\* Term::present writes has its row inside the terminal.
C36_RegionInsideTerminal ==
    /\ RegionInsideTerminal
    /\ (lockLast.op = "present" /\ tl.output) =>
          \A i \in 1..Len(written) :
              written[i].cap = "cup" => written[i].row < tl.screen_height

\* C35: a mouse key of any kind (MousePress, MouseRelease, MouseHold, SingleClick,
\* DoubleClick, WheelUp, WheelDown) taken from the channel with row R is replaced
\* by the hidden sentinel when R < cursor_row, and otherwise delivered with row
\* R - cursor_row and its kind, column, button and count unchanged.
C35_MouseRowsAdjusted ==
    (lockLast.op = "filter_event" /\ lockLast.key.k \in FilteredKinds) =>
        IF lockLast.key.row < tl.cursor_row
        THEN lockLast.result.k = "__Nonexhaustive"
        ELSE /\ lockLast.result.k = lockLast.key.k
             /\ lockLast.result.row = lockLast.key.row - tl.cursor_row
             /\ lockLast.result.col = lockLast.key.col
             /\ lockLast.result.button = lockLast.key.button
             /\ lockLast.result.count = lockLast.key.count

\* A wheel key below the first row of a region that does not start at the top of
\* the terminal has been delivered with its row reduced.
C35_Witness ==
    /\ lockLast.op = "filter_event"
    /\ lockLast.key.k = "WheelDown"
    /\ tl.cursor_row > 0
    /\ lockLast.key.row > tl.cursor_row
    /\ lockLast.result.k = "WheelDown"
    /\ lockLast.result.row = lockLast.key.row - tl.cursor_row

\* A click above the region has been replaced by the sentinel.
C35_WitnessHidden ==
    /\ lockLast.op = "filter_event"
    /\ lockLast.key.k = "SingleClick"
    /\ lockLast.key.row < tl.cursor_row
    /\ lockLast.result = Nonexhaustive

\* on_event was called on a Stack.
StackAsked == widget.kind = "stack" /\ lay.op = "on_event"

\* What widget i of the Stack answers to the event the Stack was handed.
Answer(i) == OnEvent(widget.kids[i], lay.event, lay.rect)
Answering == {i \in 1..Len(widget.kids) : Answer(i) # <<>>}

\* C40: Stack::on_event offers the event to its widgets from the topmost to the
\* bottommost and returns the messages of the first that answers with a vector
\* that is not empty; the widgets below that one are not called, and the result
\* is empty only when every widget answered with an empty vector.
C40_StackTopFirst ==
    StackAsked =>
        LET n == Len(widget.kids)
        IN  /\ \A k \in 1..Len(lay.called) : lay.called[k] = n - k + 1
            /\ IF Answering = {}
               THEN lay.msgs = <<>> /\ Len(lay.called) = n
               ELSE LET first == CHOOSE i \in Answering : \A j \in Answering : j <= i
                    IN  /\ lay.msgs = Answer(first)
                        /\ lay.called # <<>>
                        /\ lay.called[Len(lay.called)] = first

\* The topmost widget answered nothing, the one below it answered and the
\* bottommost, which would have answered, was not called.
C40_Witness ==
    /\ StackAsked
    /\ Len(widget.kids) = 3
    /\ Answering = {1, 2}
    /\ lay.called = <<3, 2>>
    /\ lay.msgs = Answer(2) /\ lay.msgs # Answer(1)

\* Every widget would answer and only the topmost was called.
C40_WitnessTop ==
    /\ StackAsked
    /\ Answering = {1, 2, 3}
    /\ lay.called = <<3>>
    /\ lay.msgs = Answer(3)

\* The canvas a container that is drawn on the whole area hands its child i.
ChildCanvas(i) ==
    LET abs == Rectangle(0, 0, area.width, area.height)
    IN  CASE widget.kind = "hsplit" ->
                SplitCanvas(abs, 1, DrawSpans(RetrieveSplitInfo(widget.kids, 1, abs.width),
                                              0, abs.width)[i])
          [] widget.kind = "vsplit" ->
                SplitCanvas(abs, 2, DrawSpans(RetrieveSplitInfo(widget.kids, 2, abs.height),
                                              0, abs.height)[i])
          [] widget.kind = "win" -> CalcInnerRect(widget.box, abs)
          [] OTHER -> abs

\* What the draw of child i on that canvas gives, and the children whose draw
\* fails.
ChildDraw(i) == Draw(widget.kids[i], ChildCanvas(i))
FailingChildren ==
    {i \in 1..Len(widget.kids) : ChildCanvas(i).ok /\ ~ChildDraw(i).ok}

\* A container was drawn and the draw of one of its children fails.
ChildFailed ==
    /\ lay.op = "draw"
    /\ widget.kind \in {"hsplit", "vsplit", "stack", "win"}
    /\ FailingChildren # {}

\* Every leaf that child i draws was drawn by the draw of the container.
ChildDrawn(i) ==
    \A k \in 1..Len(ChildDraw(i).leaves) :
        \E j \in 1..Len(lay.leaves) : lay.leaves[j] = ChildDraw(i).leaves[k]

\* The draw of the container returned the error.
C38_ErrorReturned == ChildFailed => ~lay.ok

\* The other children of the container were drawn.
C38_OthersDrawn ==
    ChildFailed =>
        \A i \in 1..Len(widget.kids) : i \notin FailingChildren => ChildDrawn(i)

\* C38: when the draw of a child of an HSplit, VSplit, Stack or Win fails, the
\* draw of the container returns the error to its caller and the other children
\* of the container are drawn all the same.
C38_ChildErrorSurfaces == C38_ErrorReturned /\ C38_OthersDrawn

\* A Win was drawn or was handed an event: the rectangle it starts from, which is
\* the whole canvas for draw and the rect of the call for on_event, and the inner
\* rectangle it works out.
WinCalled == widget.kind = "win" /\ lay.op \in {"draw", "on_event"}
OuterRect ==
    IF lay.op = "draw" THEN Rectangle(0, 0, area.width, area.height) ELSE lay.rect
InnerRect == CalcInnerRect(widget.box, OuterRect)

\* inner lies inside outer.
Inside(inner, outer) ==
    /\ outer.top <= inner.top
    /\ inner.top + inner.height <= outer.top + outer.height
    /\ outer.left <= inner.left
    /\ inner.left + inner.width <= outer.left + outer.width

\* What is left of the extent along one axis once two margins, the edges of the
\* border and two paddings are taken away; a percentage is taken of what is left
\* at that point.
Remaining(extent, margin_a, margin_b, edges, padding_a, padding_b) ==
    LET in_margin == extent - CalcFixedSize(margin_a, extent, 0)
                            - CalcFixedSize(margin_b, extent, 0)
        in_border == in_margin - edges
    IN  in_border - CalcFixedSize(padding_a, Max(in_border, 0), 0)
                  - CalcFixedSize(padding_b, Max(in_border, 0), 0)

\* Margins, border and padding leave the Win no area.
NoAreaLeft ==
    LET box == widget.box
        top_edge == box.border[1] \/ (box.title_on_top /\ box.header)
        bottom_edge == box.border[3] \/ (~box.title_on_top /\ box.header)
    IN  \/ Remaining(OuterRect.width, box.margin[4], box.margin[2],
                     BoolToInt(box.border[4]) + BoolToInt(box.border[2]),
                     box.padding[4], box.padding[2]) <= 0
        \/ Remaining(OuterRect.height, box.margin[1], box.margin[3],
                     BoolToInt(top_edge) + BoolToInt(bottom_edge),
                     box.padding[1], box.padding[3]) <= 0

\* The inner rectangle a Win obtains has a width and a height of at least 1.
C39_InnerHasArea ==
    WinCalled /\ InnerRect.ok => InnerRect.width >= 1 /\ InnerRect.height >= 1

\* Draw fails, and draws nothing of the inner widget, when no area is left.
C39_NoAreaIsAnError ==
    WinCalled /\ lay.op = "draw" /\ NoAreaLeft =>
        ~InnerRect.ok /\ ~lay.ok /\ lay.leaves = <<>>

\* The inner rectangle lies inside the rectangle the Win started from.
C39_InnerInsideOuter == WinCalled /\ InnerRect.ok => Inside(InnerRect, OuterRect)

\* The same for a Win that starts from a rectangle at the origin, as in draw.
C39_InnerInsideAtOrigin ==
    WinCalled /\ InnerRect.ok /\ OuterRect.top = 0 /\ OuterRect.left = 0 =>
        Inside(InnerRect, OuterRect)

\* C39: whenever a Win obtains an inner rectangle, for draw or for the routing of
\* an event, that rectangle has a width and a height of at least 1 and lies inside
\* the outer rectangle less the margins, the edges of the border (an edge kept for
\* the title or the right prompt included) and the padding; when these leave no
\* area, draw returns a DrawError and the inner widget is not drawn.
C39_WinInnerRect == C39_InnerHasArea /\ C39_InnerInsideOuter /\ C39_NoAreaIsAnError

\* A mouse event was handed to an HSplit or a VSplit with the rectangle the
\* container lies in.
SplitRouted ==
    /\ widget.kind \in {"hsplit", "vsplit"}
    /\ lay.op = "on_event"
    /\ lay.event.kind \in MouseKinds

\* The rectangle child i is drawn into, for a container that lies in lay.rect.
DrawnRect(i) ==
    Rectangle(lay.rect.top + ChildCanvas(i).top, lay.rect.left + ChildCanvas(i).left,
              ChildCanvas(i).width, ChildCanvas(i).height)

\* The rectangle of child i in on_event is the one child i is drawn into.
SameRects ==
    \A i \in 1..Len(widget.kids) :
        /\ lay.sub_rects[i] = DrawnRect(i)
        /\ AdjustOrigin(lay.sub_rects[i]) = AdjustOrigin(ChildCanvas(i))

\* The same for a container that lies at the origin, as the widget that
\* Term::draw draws does.
C37_SameRectsAtOrigin ==
    SplitRouted /\ lay.rect.top = 0 /\ lay.rect.left = 0 => SameRects

\* C37: for every HSplit and VSplit, whatever the size of the container and its
\* children (children cut at the edge of the container and splits inside splits
\* included), the rectangle that decides whether a mouse event belongs to child i
\* and that is handed to child i for its own routing is exactly the rectangle
\* child i was drawn into.
C37_EventRectIsDrawnRect == SplitRouted => SameRects

\* The bytes the KeyBoard has not decoded yet: those in byte_buf and those it can
\* read.
Pending(k) == k.byte_buf \o k.file

\* next_key returned in this step.
Returned == decoded' # decoded
LastReturned == decoded'[Len(decoded')]

\* The key that ESC [ 1 ; m X stands for.
ModifierOf(m) ==
    CASE m = "2" -> "Shift" [] m = "3" -> "Alt" [] m = "4" -> "AltShift"
      [] OTHER -> "Ctrl"
KeyNamed(modifier, x) ==
    CASE x = "A" -> modifier \o "Up" [] x = "B" -> modifier \o "Down"
      [] x = "C" -> modifier \o "Right" [] x = "D" -> modifier \o "Left"
      [] x = "H" -> modifier \o "Home" [] OTHER -> modifier \o "End"

\* C34: the decoder maps each of the 24 sequences ESC [ 1 ; m X, with m one of 2,
\* 3, 4, 5 and X one of A, B, C, D, H, F, to the key Shift- (2), Alt- (3),
\* AltShift- (4) or Ctrl- (5) Up, Down, Right, Left, Home or End.
C34_ModifiedKeys ==
    [][\A m \in {"2", "3", "4", "5"}, x \in {"A", "B", "C", "D", "H", "F"} :
          Returned /\ Pending(keyboard) = Bytes(<<"ESC", "[", "1", ";", m, x>>)
          => LastReturned = Ok(Plain(KeyNamed(ModifierOf(m), x)))]_vars

\* The sequences of C34 that extended_escape has an arm for.
C34_MappedOnes ==
    [][\A m \in {"2", "3", "4", "5"}, x \in {"A", "B", "C", "D", "H", "F"} :
          /\ Returned /\ Pending(keyboard) = Bytes(<<"ESC", "[", "1", ";", m, x>>)
          /\ x \in {"A", "B", "C", "D"} => m # "3"
          /\ x \in {"H", "F"} => m = "3"
          => LastReturned = Ok(Plain(KeyNamed(ModifierOf(m), x)))]_vars

\* The others are answered with the error UnknownSequence.
C34_OthersUnknown ==
    [][\A m \in {"2", "3", "4", "5"}, x \in {"A", "B", "C", "D", "H", "F"} :
          /\ Returned /\ Pending(keyboard) = Bytes(<<"ESC", "[", "1", ";", m, x>>)
          /\ (x \in {"A", "B", "C", "D"}) = (m = "3")
          => LastReturned = Err("UnknownSequence")]_vars

\* next_key is called with ESC [ at the front of the bytes not yet decoded; the
\* KeyBoard as escape_csi finds it, and the bytes after ESC [.
CsiPending ==
    /\ Len(Pending(keyboard)) >= 2
    /\ SubSeq(Pending(keyboard), 1, 2) = Bytes(<<"ESC", "[">>)
AfterCsi == SubSeq(Pending(keyboard), 3, Len(Pending(keyboard)))
AtCsi == [byte_buf |-> AfterCsi, file |-> <<>>]

\* The bytes after ESC [ hold a report of the cursor: a ';' and after it an 'R',
\* a number of at least 1 in front of the ';' and one between the two.
ReportLength == PositionOf(AfterCsi, ByteOf("R")) + 1
ReportRow == Parse(SubSeq(AfterCsi, 1, PositionOf(AfterCsi, ByteOf(";"))), 65535)
ReportCol ==
    Parse(SubSeq(AfterCsi, PositionOf(AfterCsi, ByteOf(";")) + 2, ReportLength - 1),
          65535)
HoldsReport ==
    /\ PositionOf(AfterCsi, ByteOf(";")) # -1
    /\ PositionOf(AfterCsi, ByteOf(";")) < PositionOf(AfterCsi, ByteOf("R"))
    /\ ReportRow >= 1 /\ ReportCol >= 1

\* C32: when the attempt of the CSI handler to parse a report of the cursor does
\* not succeed, the bytes not yet decoded are left exactly as they were, so that
\* they are decoded as the keys they stand for; when it succeeds, only the bytes of
\* the report are taken.
C32_ReportOrUntouched ==
    [][Returned /\ CsiPending =>
          IF HoldsReport
          THEN /\ LastReturned = Ok(CursorPos(ReportRow - 1, ReportCol - 1))
               /\ Pending(keyboard') = SubSeq(AfterCsi, ReportLength + 1, Len(AfterCsi))
          ELSE /\ LastReturned = EscapeCsiKey(AtCsi, overflow_checks).r
               /\ Pending(keyboard') = Pending(EscapeCsiKey(AtCsi, overflow_checks).kb)
      ]_vars

\* The half of C32 for bytes that hold a report.
C32_ReportTaken ==
    [][Returned /\ CsiPending /\ HoldsReport =>
          /\ LastReturned = Ok(CursorPos(ReportRow - 1, ReportCol - 1))
          /\ Pending(keyboard') = SubSeq(AfterCsi, ReportLength + 1, Len(AfterCsi))]_vars

\* The half of C32 for bytes with no ';' or no 'R'.
C32_UntouchedWithoutBoth ==
    [][/\ Returned /\ CsiPending
       /\ \/ PositionOf(AfterCsi, ByteOf(";")) = -1
          \/ PositionOf(AfterCsi, ByteOf("R")) = -1
       => /\ LastReturned = EscapeCsiKey(AtCsi, overflow_checks).r
          /\ Pending(keyboard') = Pending(EscapeCsiKey(AtCsi, overflow_checks).kb)]_vars

\* bytes begin with the first bytes of a char of several bytes, the rest of which
\* is not there.
StartsPartial(bytes) ==
    /\ bytes # <<>>
    /\ CharLen(bytes[1]) > Len(bytes)
    /\ \A i \in 2..Len(bytes) : IsContinuation(bytes[i])

\* bytes begin with a whole char that is a key by itself: not a control char,
\* ESC or DEL.
StartsPrintable(bytes) ==
    /\ bytes # <<>>
    /\ StartsWithChar(bytes)
    /\ bytes[1] >= ByteOf(" ") /\ bytes[1] # ByteOf("DEL")

\* The bytes a call of next_char_timeout decodes from: byte_buf, filled from the
\* terminal when it is empty.
Seen == Fetched(keyboard).byte_buf

\* A whole char at the front is decoded and what follows it stays in byte_buf.
C33_WholeCharDecoded ==
    [][Returned /\ StartsPrintable(Seen) =>
          LET n == CharLen(Seen[1])
          IN  /\ LastReturned = Ok(CharKey("Char", ScalarValue(SubSeq(Seen, 1, n))))
              /\ keyboard'.byte_buf = SubSeq(Seen, n + 1, Len(Seen))]_vars

\* No call returns while the front of the buffer is a part of a char.
C33_PartialWaits == [][Returned => ~StartsPartial(Pending(keyboard))]_vars

\* C33: when the bytes not yet decoded begin with a part of a UTF-8 char of
\* several bytes, the rest of which comes in a later read, the decoding of chars
\* takes nothing, waits for the rest and then returns that char; whole chars in
\* front of a part of a char are decoded and the part stays in the buffer.
C33_PartialCharKept ==
    [][Returned =>
          LET n == CharLen(Seen[1])
          IN  /\ ~StartsPartial(Pending(keyboard))
              /\ StartsPrintable(Seen) =>
                    /\ LastReturned = Ok(CharKey("Char", ScalarValue(SubSeq(Seen, 1, n))))
                    /\ keyboard'.byte_buf = SubSeq(Seen, n + 1, Len(Seen))]_vars

\* C31: no sequence of bytes read from the terminal ends the thread of the key
\* listener: every call of next_key returns a key or an error value and the
\* listener goes on with its loop.
C31_ListenerSurvives ==
    /\ listener = "running"
    /\ \A i \in 1..Len(decoded) : decoded[i].t \in {"Ok", "Err"}
====
